---- MODULE Spec2Model ----
(***************************************************************************)
(* The wti-tech frontend as a state machine: the client-side input         *)
(* validation and sanitization (frontend/src/utils/inputValidation.ts),    *)
(* the forms of RegisterPage, CreatePostPage and EditPostPage, and the     *)
(* Redux store with its async thunks (store/slices).                       *)
(*                                                                         *)
(* A text is a sequence of one-character strings.  Positions are the       *)
(* 0-based indices JavaScript uses: the character at index p of s is       *)
(* s[p + 1], and a match is reported by the index that follows it.         *)
(* The validator state is the lastIndex of every global-flag pattern of    *)
(* the two static pattern tables, which RegExp.prototype.test reads and    *)
(* writes, and the most recent call with its outcome.                      *)
(*                                                                         *)
(* Four specifications share the variables.  Spec calls the validators,    *)
(* FormSpec drives the mounted form component against a store that does    *)
(* not change meanwhile, StoreSpec dispatches actions and thunks to the    *)
(* store and lets the pending requests complete in any order, and          *)
(* PostPagesSpec moves a logged-in user between PostsPage, PostDetailPage  *)
(* and EditPostPage while the requests of these pages are answered.        *)
(***************************************************************************)
EXTENDS Integers, Sequences, FiniteSets, TLC

VARIABLES
    xssLastIndex,   \* lastIndex of XSS_PATTERNS[1..10]
    sqlLastIndex,   \* lastIndex of SQL_INJECTION_PATTERNS[1..4]
    last,           \* the most recent call: operation, arguments, outcome
    page,           \* the form component that is mounted, or "elsewhere"
    routeId,        \* the :id of the route of EditPostPage
    formData,       \* its formData: field -> text
    typed,          \* field -> the value of the latest change event, if any
    validationErrors, \* its validationErrors: field -> message
    isSubmitting,   \* EditPostPage's isSubmitting
    dispatched,     \* the thunk call the page made last, while it awaits it
    auth,           \* state.auth
    posts,          \* state.posts
    externalPosts,  \* state.externalPosts
    localToken,     \* localStorage's 'token' item
    loggedOut,      \* logout was dispatched, and no login or setCredentials since
    inFlight,       \* the requests sent and not yet answered
    sent,           \* how many requests the session has sent
    settled         \* the thunk the latest step completed, with how it ended

validatorVars == <<xssLastIndex, sqlLastIndex, last>>
pageVars ==
    <<page, routeId, formData, typed, validationErrors, isSubmitting, dispatched>>
storeVars ==
    <<auth, posts, externalPosts, localToken, loggedOut, inFlight, sent,
      settled>>
vars == <<validatorVars, pageVars, storeVars>>

----------------------------------------------------------------------------
(* Characters and the character classes of the regular expressions.        *)

LowerSeq ==
    <<"a", "b", "c", "d", "e", "f", "g", "h", "i", "j", "k", "l", "m",
      "n", "o", "p", "q", "r", "s", "t", "u", "v", "w", "x", "y", "z">>

UpperSeq ==
    <<"A", "B", "C", "D", "E", "F", "G", "H", "I", "J", "K", "L", "M",
      "N", "O", "P", "Q", "R", "S", "T", "U", "V", "W", "X", "Y", "Z">>

LowerLetters == {LowerSeq[i] : i \in 1..26}
UpperLetters == {UpperSeq[i] : i \in 1..26}
Letters == LowerLetters \cup UpperLetters
Digits == {"0", "1", "2", "3", "4", "5", "6", "7", "8", "9"}

\* [a-zA-Z]
IsLetter(c) == c \in Letters
\* \d
IsDigit(c) == c \in Digits
\* \w
IsWord(c) == c \in Letters \cup Digits \cup {"_"}
\* \s, which is also what String.prototype.trim removes
IsSpace(c) == c \in {" ", "\t", "\n", "\r", "\f"}
\* what "." does not match
IsLineTerminator(c) == c \in {"\n", "\r"}
IsQuote(c) == c \in {"'", "\""}
\* [^'"]
IsNotQuote(c) == ~IsQuote(c)
\* [^>]
IsNotGt(c) == c # ">"
\* [a-zA-Z0-9._%+-]
IsEmailLocal(c) == c \in Letters \cup Digits \cup {".", "_", "%", "+", "-"}
\* [a-zA-Z0-9.-]
IsEmailDomain(c) == c \in Letters \cup Digits \cup {".", "-"}
\* [a-zA-Z\s\-']
IsNameChar(c) == IsLetter(c) \/ IsSpace(c) \/ c \in {"-", "'"}

\* The canonical form the i flag compares: ASCII letters fold, nothing else.
LowerOf == [c \in UpperLetters |-> LowerSeq[CHOOSE i \in 1..26 : UpperSeq[i] = c]]
ToLower(c) == IF c \in UpperLetters THEN LowerOf[c] ELSE c
\* (SubSeq makes the function a sequence value.)
Fold(s) == SubSeq([i \in 1..Len(s) |-> ToLower(s[i])], 1, Len(s))

----------------------------------------------------------------------------
(* Regular-expression matching.  Every ...End(s, p) operator gives the     *)
(* index that follows the match of one pattern anchored at index p of s,   *)
(* as the backtracking matcher finds it, or -1 when the pattern does not   *)
(* match there.  For an i-flag pattern s is the folded text.               *)

NoMatch == -1

\* The literal w at index p.
MatchLit(s, p, w) ==
    /\ p + Len(w) <= Len(s)
    /\ \A k \in 1..Len(w) : s[p + k] = w[k]

\* Whether the character at index p exists and is c.
CharIs(s, p, c) == p < Len(s) /\ s[p + 1] = c

\* The end of the greedy run C* from index p: the first index at or after p
\* that is the end of the text or holds a character outside C.
RunEnd(s, p, C(_)) ==
    CHOOSE q \in p..Len(s) :
        /\ q = Len(s) \/ ~C(s[q + 1])
        /\ \A k \in (p + 1)..q : C(s[k])

\* \b at index p
WordBoundary(s, p) ==
    (p > 0 /\ IsWord(s[p])) # (p < Len(s) /\ IsWord(s[p + 1]))

----------------------------------------------------------------------------
(* The patterns.                                                           *)

LitScriptOpen == <<"<", "s", "c", "r", "i", "p", "t">>
LitScriptClose == <<"<", "/", "s", "c", "r", "i", "p", "t", ">">>
LitJavascript == <<"j", "a", "v", "a", "s", "c", "r", "i", "p", "t", ":">>
LitVbscript == <<"v", "b", "s", "c", "r", "i", "p", "t", ":">>
LitOn == <<"o", "n">>
LitOr == <<"o", "r">>
LitAnd == <<"a", "n", "d">>

\* (iframe|object|embed|form)
PairedTags ==
    <<<<"i", "f", "r", "a", "m", "e">>, <<"o", "b", "j", "e", "c", "t">>,
      <<"e", "m", "b", "e", "d">>, <<"f", "o", "r", "m">>>>

\* (union|select|insert|delete|update|drop|create|alter|exec|execute)
SqlKeywords ==
    <<<<"u", "n", "i", "o", "n">>, <<"s", "e", "l", "e", "c", "t">>,
      <<"i", "n", "s", "e", "r", "t">>, <<"d", "e", "l", "e", "t", "e">>,
      <<"u", "p", "d", "a", "t", "e">>, <<"d", "r", "o", "p">>,
      <<"c", "r", "e", "a", "t", "e">>, <<"a", "l", "t", "e", "r">>,
      <<"e", "x", "e", "c">>, <<"e", "x", "e", "c", "u", "t", "e">>>>

\* onload, onerror, onclick, onmouseover
EventNames ==
    <<<<"o", "n", "l", "o", "a", "d">>, <<"o", "n", "e", "r", "r", "o", "r">>,
      <<"o", "n", "c", "l", "i", "c", "k">>,
      <<"o", "n", "m", "o", "u", "s", "e", "o", "v", "e", "r">>>>

\* (--|#|\/\*|\*\/)
CommentMarks == <<<<"-", "-">>, <<"#">>, <<"/", "*">>, <<"*", "/">>>>

\* <tag[^>]*>.*?<\/tag> with the opening literal open (that is "<tag") and
\* the closing literal close (that is "</tag>").  [^>]* runs to the first
\* ">" and nothing shorter can be followed by ">"; the lazy .*? stops at
\* the first closing literal, and "." matches no line terminator.
TagBlockEnd(s, p, open, close) ==
    IF ~MatchLit(s, p, open) THEN NoMatch
    ELSE LET g == RunEnd(s, p + Len(open), IsNotGt)
         IN  IF g = Len(s) THEN NoMatch
             ELSE LET body == g + 1
                      ends == {e \in body..Len(s) :
                                  /\ MatchLit(s, e, close)
                                  /\ \A k \in body..(e - 1) :
                                         /\ ~MatchLit(s, k, close)
                                         /\ ~IsLineTerminator(s[k + 1])}
                  IN  IF ends = {} THEN NoMatch
                      ELSE (CHOOSE e \in ends : TRUE) + Len(close)

\* /<script[^>]*>.*?<\/script>/
ScriptBlockEnd(s, p) == TagBlockEnd(s, p, LitScriptOpen, LitScriptClose)

\* /<(iframe|object|embed|form)[^>]*>.*?<\/\1>/ : the back-reference makes
\* the closing tag the one that opened.
PairedTagEnd(s, p) ==
    IF \E i \in 1..Len(PairedTags) : MatchLit(s, p, <<"<">> \o PairedTags[i])
    THEN LET i == CHOOSE i \in 1..Len(PairedTags) :
                      MatchLit(s, p, <<"<">> \o PairedTags[i])
         IN  TagBlockEnd(s, p, <<"<">> \o PairedTags[i],
                         <<"<", "/">> \o PairedTags[i] \o <<">">>)
    ELSE NoMatch

\* /<tag[^>]*>.*?<\/tag>/ for one tag of PairedTags (XSS_PATTERNS 8..10)
OneTagEnd(s, p, i) ==
    TagBlockEnd(s, p, <<"<">> \o PairedTags[i],
                <<"<", "/">> \o PairedTags[i] \o <<">">>)

\* /on\w+\s*=\s*['"]*[^'"]*['"]/ : after the greedy runs the closing quote
\* is the first quote that follows them; when there is none, the matcher
\* gives back one quote of ['"]* and the match ends with that run.
EventAttrEnd(s, p) ==
    IF ~MatchLit(s, p, LitOn) THEN NoMatch
    ELSE LET w == RunEnd(s, p + 2, IsWord)
             a == RunEnd(s, w, IsSpace)
         IN  IF w = p + 2 \/ ~CharIs(s, a, "=") THEN NoMatch
             ELSE LET b == RunEnd(s, a + 1, IsSpace)
                      c == RunEnd(s, b, IsQuote)
                      d == RunEnd(s, c, IsNotQuote)
                  IN  IF d < Len(s) THEN d + 1
                      ELSE IF c > b THEN c
                      ELSE NoMatch

\* /javascript:/ , /vbscript:/
LiteralEnd(s, p, w) == IF MatchLit(s, p, w) THEN p + Len(w) ELSE NoMatch

\* /onload\s*=/ and the like: an event name, \s*, "="
EventNameEnd(s, p, i) ==
    IF ~MatchLit(s, p, EventNames[i]) THEN NoMatch
    ELSE LET a == RunEnd(s, p + Len(EventNames[i]), IsSpace)
         IN  IF CharIs(s, a, "=") THEN a + 1 ELSE NoMatch

\* /(\b(union|select|...|exec|execute)\b)/ : a whole word that is a keyword
KeywordEnd(s, p) ==
    IF /\ WordBoundary(s, p)
       /\ \E i \in 1..Len(SqlKeywords) :
              /\ MatchLit(s, p, SqlKeywords[i])
              /\ WordBoundary(s, p + Len(SqlKeywords[i]))
    THEN LET i == CHOOSE i \in 1..Len(SqlKeywords) :
                      /\ MatchLit(s, p, SqlKeywords[i])
                      /\ WordBoundary(s, p + Len(SqlKeywords[i]))
         IN  p + Len(SqlKeywords[i])
    ELSE NoMatch

\* /(--|#|\/\*|\*\/)/
CommentEnd(s, p) ==
    IF \E i \in 1..Len(CommentMarks) : MatchLit(s, p, CommentMarks[i])
    THEN p + Len(CommentMarks[CHOOSE i \in 1..Len(CommentMarks) :
                                  MatchLit(s, p, CommentMarks[i])])
    ELSE NoMatch

\* (or|and) at index p: the index after it, or NoMatch
OrAndEnd(s, p) ==
    IF MatchLit(s, p, LitOr) THEN p + 2
    ELSE IF MatchLit(s, p, LitAnd) THEN p + 3
    ELSE NoMatch

\* /(\b(or|and)\b\s+\d+\s*=\s*\d+)/
TautologyEnd(s, p) ==
    LET w == OrAndEnd(s, p)
    IN  IF w = NoMatch \/ ~WordBoundary(s, p) THEN NoMatch
        ELSE IF ~WordBoundary(s, w) THEN NoMatch
        ELSE LET a == RunEnd(s, w, IsSpace)
                 b == RunEnd(s, a, IsDigit)
                 c == RunEnd(s, b, IsSpace)
             IN  IF a = w \/ b = a \/ ~CharIs(s, c, "=") THEN NoMatch
                 ELSE LET d == RunEnd(s, c + 1, IsSpace)
                          e == RunEnd(s, d, IsDigit)
                      IN  IF e = d THEN NoMatch ELSE e

\* /(\'\s*(or|and)\s*\'\w*\'\s*=\s*\'\w*)/
QuotedTautologyEnd(s, p) ==
    IF ~CharIs(s, p, "'") THEN NoMatch
    ELSE LET a == RunEnd(s, p + 1, IsSpace)
             w == OrAndEnd(s, a)
         IN  IF w = NoMatch THEN NoMatch
             ELSE LET b == RunEnd(s, w, IsSpace)
                  IN  IF ~CharIs(s, b, "'") THEN NoMatch
                      ELSE LET c == RunEnd(s, b + 1, IsWord)
                           IN  IF ~CharIs(s, c, "'") THEN NoMatch
                               ELSE LET d == RunEnd(s, c + 1, IsSpace)
                                    IN  IF ~CharIs(s, d, "=") THEN NoMatch
                                        ELSE LET e == RunEnd(s, d + 1, IsSpace)
                                             IN  IF ~CharIs(s, e, "'") THEN NoMatch
                                                 ELSE RunEnd(s, e + 1, IsWord)

\* The patterns by name.  s is the folded text for the patterns with the i
\* flag (all but "sqlComment", which holds no letter).
MatchEnd(pat, s, p) ==
    CASE pat = "script" -> ScriptBlockEnd(s, p)
      [] pat = "eventAttr" -> EventAttrEnd(s, p)
      [] pat = "javascript" -> LiteralEnd(s, p, LitJavascript)
      [] pat = "vbscript" -> LiteralEnd(s, p, LitVbscript)
      [] pat = "pairedTag" -> PairedTagEnd(s, p)
      [] pat = "onload" -> EventNameEnd(s, p, 1)
      [] pat = "onerror" -> EventNameEnd(s, p, 2)
      [] pat = "onclick" -> EventNameEnd(s, p, 3)
      [] pat = "onmouseover" -> EventNameEnd(s, p, 4)
      [] pat = "iframe" -> OneTagEnd(s, p, 1)
      [] pat = "object" -> OneTagEnd(s, p, 2)
      [] pat = "embed" -> OneTagEnd(s, p, 3)
      [] pat = "sqlKeyword" -> KeywordEnd(s, p)
      [] pat = "sqlComment" -> CommentEnd(s, p)
      [] pat = "sqlTautology" -> TautologyEnd(s, p)
      [] pat = "sqlQuoted" -> QuotedTautologyEnd(s, p)

\* Every match of a pattern in s, each anchored at its own index:
\* <<start, end>>.
AnchoredMatches(pat, s) ==
    {m \in {<<p, MatchEnd(pat, s, p)>> : p \in 0..Len(s)} : m[2] # NoMatch}

\* The leftmost of the matches that start at or after index from, or
\* <<NoMatch, NoMatch>>: the search moves on from an index only when the
\* pattern does not match there.
FirstFrom(matches, from) ==
    IF \E m \in matches : m[1] >= from
    THEN CHOOSE m \in matches :
             /\ m[1] >= from
             /\ \A n \in matches : n[1] >= from => m[1] <= n[1]
    ELSE <<NoMatch, NoMatch>>

\* RegExp.prototype.exec from index from.
Exec(pat, s, from) == FirstFrom(AnchoredMatches(pat, s), from)

\* String.prototype.replace(re, '') with a global i-flag pattern: every
\* match, left to right and without overlap, is removed in one pass.
\* f is the folded s; the result is s from index from on, without them.
\* m is the next match at or after from.
RECURSIVE RemoveAllFrom(_, _, _, _)
RemoveMatch(pat, s, f, from, m) ==
    IF m[1] = NoMatch
    THEN SubSeq(s, from + 1, Len(s))
    ELSE SubSeq(s, from + 1, m[1]) \o RemoveAllFrom(pat, s, f, m[2])
RemoveAllFrom(pat, s, f, from) ==
    RemoveMatch(pat, s, f, from, Exec(pat, f, from))

Replace(pat, s) == RemoveAllFrom(pat, s, Fold(s), 0)

\* String.prototype.trimStart
TrimStart(s) ==
    IF \A k \in 1..Len(s) : IsSpace(s[k]) THEN <<>>
    ELSE SubSeq(s, CHOOSE i \in 1..Len(s) :
                       ~IsSpace(s[i]) /\ \A k \in 1..(i - 1) : IsSpace(s[k]),
                Len(s))

\* String.prototype.trim
Trim(s) ==
    IF \A k \in 1..Len(s) : IsSpace(s[k]) THEN <<>>
    ELSE LET i == CHOOSE i \in 1..Len(s) :
                      ~IsSpace(s[i]) /\ \A k \in 1..(i - 1) : IsSpace(s[k])
             j == CHOOSE j \in 1..Len(s) :
                      ~IsSpace(s[j]) /\ \A k \in (j + 1)..Len(s) : IsSpace(s[k])
         IN  SubSeq(s, i, j)

----------------------------------------------------------------------------
(* JavaScript values, results and messages.                                *)

Str(s) == [t |-> "string", s |-> s]
Null == [t |-> "null"]
Undefined == [t |-> "undefined"]
Num(n) == [t |-> "number", n |-> n]
\* An object with the given fields; a field it lacks reads as undefined.
Obj(fields) == [t |-> "object", f |-> fields]

\* typeof v === 'string'
IsString(v) == v.t = "string"
\* !v with the empty string taken for a value: what the required check
\* would be if it tested only for null, undefined and zero.
FalsyButEmpty(v) ==
    \/ v.t \in {"null", "undefined"}
    \/ v.t = "number" /\ v.n = 0

\* !v
Falsy(v) ==
    \/ v.t \in {"null", "undefined"}
    \/ v.t = "number" /\ v.n = 0
    \/ v.t = "string" /\ v.s = <<>>
    \/ v.t = "boolean" /\ ~v.b

\* v.name: reading a property of null or undefined throws a TypeError
ReadThrows(v) == v.t \in {"null", "undefined"}
Field(v, name) ==
    IF v.t = "object" /\ name \in DOMAIN v.f THEN v.f[name] ELSE Undefined

\* A message is <<label, text>>: `${label}text` for the messages built
\* from the caller's field label, and the literal text otherwise.
Msg(text) == <<"", text>>
Labelled(label, text) == <<label, text>>

\* errors.push(msg) under a condition
PushIf(cond, msg) == IF cond THEN <<msg>> ELSE <<>>

\* A result whose isValid is not computed from errors.
ResultAlwaysValid(errors) == [isValid |-> TRUE, errors |-> errors]

\* { isValid: errors.length === 0, errors }
Result(errors) == [isValid |-> Len(errors) = 0, errors |-> errors]

\* errors.push(`... is required`); return { isValid: false, errors }
Required(msg) == [isValid |-> FALSE, errors |-> <<msg>>]

MAX_EMAIL == 100
MIN_USERNAME == 3
MAX_USERNAME == 50
MIN_NAME == 1
MAX_NAME == 50
MIN_PASSWORD == 8
MAX_PASSWORD == 128
MIN_TITLE == 5
MAX_TITLE == 200
MIN_CONTENT == 10
MAX_CONTENT == 10000

----------------------------------------------------------------------------
(* The arguments the operations are called with.                           *)

TxEmailOk ==
    <<"u", "s", "e", "r", "@", "e", "x", "a", "m", "p", "l", "e", ".", "c",
      "o", "m">>
TxAbc == <<"a", "b", "c">>
TxSpaceEmail == <<" ", "a", "@", "b", ".", "c", "o">>
TxSpaceAbc == <<" ", "a", "b", "c">>
TxDomain == <<"@", "b", ".", "c", "o", "m">>
TxAb == <<"a", "b">>
TxValidUser == <<"v", "a", "l", "i", "d", "_", "u", "s", "e", "r", "1">>
TxBadName == <<"b", "a", "d", " ", "n", "a", "m", "e">>
TxSpaces == <<" ", " ">>
TxAnn == <<"A", "n", "n">>
TxLee == <<"L", "e", "e">>
TxSpace == <<" ">>
TxJ0hn == <<"J", "0", "h", "n">>
TxFirstName == <<"F", "i", "r", "s", "t", " ", "n", "a", "m", "e">>
TxPwNoDigit == <<"a", "b", "c", "d", "e", "f", "g", "h">>
TxPwOk == <<"a", "b", "c", "d", "e", "f", "g", "1">>
TxPwOther == <<"a", "b", "c", "d", "e", "f", "g", "2">>
TxPwNoLetter == <<"1", "2", "3", "4", "5", "6", "7", "8">>
TxSelectStar ==
    <<"S", "E", "L", "E", "C", "T", " ", "*", " ", "F", "R", "O", "M", " ",
      "u", "s", "e", "r", "s", " ", "W", "H", "E", "R", "E", " ", "1", "=",
      "1">>
TxSelectAll ==
    <<"s", "e", "l", "e", "c", "t", " ", "a", "l", "l", " ", "i", "t", "e",
      "m", "s">>
TxHelloWorld == <<"H", "e", "l", "l", "o", " ", "w", "o", "r", "l", "d">>
TxHey == <<"H", "e", "y">>
TxSpaceHello == <<" ", "H", "e", "l", "l", "o">>
TxComment == <<"a", "-", "-", "b">>
TxSpaceDrop == <<" ", "d", "r", "o", "p">>
TxDropTables ==
    <<"d", "r", "o", "p", " ", "t", "h", "e", " ", "t", "a", "b", "l", "e",
      "s", " ", "n", "o", "w">>
TxFinePost ==
    <<"T", "h", "i", "s", " ", "i", "s", " ", "a", " ", "f", "i", "n", "e",
      " ", "p", "o", "s", "t", ".">>
TxShort == <<"s", "h", "o", "r", "t">>
TxQuoted ==
    <<"x", "'", " ", "o", "r", " ", "'", "a", "'", "=", "'", "a", " ", "o",
      "k", "a", "y">>
TxTautology ==
    <<"1", " ", "o", "r", " ", "1", "=", "1", " ", "i", "s", " ", "s", "o", " ", "t", "r", "u", "e">>
TxScriptAlert ==
    <<"<", "s", "c", "r", "i", "p", "t", ">", "a", "l", "e", "r", "t", "(",
      "1", ")", "<", "/", "s", "c", "r", "i", "p", "t", ">">>
TxHello == <<"h", "e", "l", "l", "o", " ", "w", "o", "r", "l", "d">>
TxImgOnerror ==
    <<"<", "i", "m", "g", " ", "o", "n", "e", "r", "r", "o", "r", "=", "x",
      ">">>
TxScriptLines ==
    <<"a", "<", "s", "c", "r", "i", "p", "t", ">", "x", "\n", "y", "<", "/",
      "s", "c", "r", "i", "p", "t", ">", "b">>
TxOnclick ==
    <<"<", "b", " ", "o", "n", "c", "l", "i", "c", "k", "=", "\"", "x", "\"",
      ">", "h", "i", "<", "/", "b", ">">>
TxJavascript ==
    <<"j", "a", "v", "a", "s", "c", "r", "i", "p", "t", ":", "g", "o">>

TxPadded == <<" ", " ", "a", " ", "b", " ", " ">>
TxPwShort == <<"a", "b", "c", "d", "e", "f", "1">>
TxPwPadded == <<" ", "a", "b", "c", "d", "e", "f", "g", "1", " ">>
TxPwMarkup ==
    <<"<", "s", "c", "r", "i", "p", "t", ">", "a", "1", "<", "/", "s", "c",
      "r", "i", "p", "t", ">">>
TxBadEmail == <<"n", "o", "t", "-", "a", "n", "-", "e", "m", "a", "i", "l">>

\* How far past a maximum length the over-long texts go.
Excess == 1

Rep(c, n) == SubSeq([i \in 1..n |-> c], 1, n)

NonText == {Null, Undefined, Num(5)}

Strs(texts) == {Str(s) : s \in texts}

EmailTexts ==
    {<<>>, TxEmailOk, TxAbc, TxSpaceEmail, TxSpaceAbc,
     Rep("a", MAX_EMAIL + Excess - Len(TxDomain)) \o TxDomain,
     Rep("a", MAX_EMAIL + Excess),
     <<" ">> \o Rep("a", MAX_EMAIL + Excess)}

UsernameTexts ==
    {<<>>, TxAb, TxValidUser, TxBadName, TxSpaces,
     Rep("a", MAX_USERNAME + Excess),
     <<" ">> \o Rep("-", MAX_USERNAME + Excess)}

NameTexts ==
    {<<>>, TxAnn, TxSpace, TxJ0hn, TxScriptAlert,
     Rep("a", MAX_NAME + Excess),
     <<" ">> \o Rep("1", MAX_NAME + Excess)}

\* The names validated under the label 'First name'.
LabelledNames == {Str(TxJ0hn), Str(TxSpace), Null}

PasswordTexts ==
    {<<>>, TxAbc, TxPwNoDigit, TxPwOk, TxPwNoLetter, TxSpaceAbc,
     TxPwShort, TxPwPadded, TxPwMarkup,
     Rep("a", MAX_PASSWORD - 1) \o <<"1">>,
     Rep("a", MAX_PASSWORD + Excess) \o <<"1">>,
     Rep("a", MAX_PASSWORD + Excess),
     Rep("!", MAX_PASSWORD + Excess)}

TitleTexts ==
    {<<>>, TxSelectStar, TxSelectAll, TxHelloWorld, TxHey, TxSpaceHello,
     TxComment, TxSpaceDrop, TxImgOnerror,
     Rep("a", MIN_TITLE - 1), Rep("a", MIN_TITLE), Rep("a", MAX_TITLE),
     Rep("a", MAX_TITLE + Excess),
     <<" ">> \o Rep("!", MAX_TITLE + Excess)}

ContentTexts ==
    {<<>>, TxDropTables, TxFinePost, TxShort, TxQuoted, TxTautology,
     TxSpaceDrop, TxImgOnerror,
     Rep("a", MIN_CONTENT - 1), Rep("a", MIN_CONTENT), Rep("a", MAX_CONTENT),
     Rep("a", MAX_CONTENT + Excess)}

XssTexts == {TxScriptAlert, TxHello, TxImgOnerror}

SqlTexts == {TxSelectAll, TxHello, TxTautology}

SanitizeTexts ==
    {<<>>, TxHello, TxSpaceHello, TxScriptAlert, TxScriptLines, TxOnclick,
     TxJavascript, TxImgOnerror, TxPadded}

\* The objects passed to validatePostCreation; a title or content of
\* Undefined is a missing field.
PostObjects ==
    {Obj([title |-> ti, content |-> co]) :
        ti \in {Str(TxSelectAll), Str(TxHelloWorld), Undefined},
        co \in {Str(TxDropTables), Str(TxFinePost), Undefined}}

\* The objects passed to validateUserRegistration.
UserObjects ==
    {Obj([username |-> un, email |-> Str(TxEmailOk), firstName |-> fn,
          lastName |-> Str(TxLee), password |-> Str(TxPwOk)]) :
        un \in {Str(TxValidUser), Str(TxAb)}, fn \in {Str(TxAnn), Undefined}}
    \cup
    {Obj([username |-> un, email |-> Str(TxEmailOk), firstName |-> Str(TxAnn),
          lastName |-> Str(TxLee), password |-> Str(TxPwOk),
          confirmPassword |-> cp]) :
        un \in {Str(TxValidUser), Str(TxAb)},
        cp \in {Str(TxPwOk), Str(TxPwOther), Str(<<>>)}}
    \cup
    {Obj([username |-> Str(TxBadName), email |-> Str(TxBadEmail),
          firstName |-> Str(TxJ0hn), lastName |-> Str(TxSpace),
          password |-> Str(TxAbc), confirmPassword |-> Str(TxPwOk)])}

\* What reaches a composite validator that is not such an object.
NonObjects == {Null, Undefined, Num(5)}

FieldValues == {Str(TxSelectAll), Undefined}

\* Every text the model passes to an operation.
AllTexts ==
    EmailTexts \cup UsernameTexts \cup NameTexts \cup PasswordTexts
    \cup TitleTexts \cup ContentTexts \cup XssTexts \cup SqlTexts
    \cup SanitizeTexts \cup {TxLee, TxPwOther, TxBadEmail}

Range(seq) == {seq[i] : i \in 1..Len(seq)}

----------------------------------------------------------------------------
(* InputValidator.                                                         *)

XSS_PATTERNS ==
    <<"script", "javascript", "vbscript", "onload", "onerror", "onclick",
      "onmouseover", "iframe", "object", "embed">>

SQL_INJECTION_PATTERNS ==
    <<"sqlKeyword", "sqlComment", "sqlTautology", "sqlQuoted">>

\* The lastIndex of every pattern of a table when the class is defined.
Pristine(pats) == [k \in 1..Len(pats) |-> 0]

\* The patterns sanitizeString removes, in the order of the code.
SANITIZE_PATTERNS ==
    <<"script", "eventAttr", "javascript", "vbscript", "pairedTag">>

\* The replacements from the k-th on, each on the result of the one before.
RECURSIVE ReplaceEach(_, _, _)
ReplaceEach(pats, k, s) ==
    IF k > Len(pats) THEN s
    ELSE ReplaceEach(pats, k + 1, Replace(pats[k], s))

\* The body of sanitizeString for a text: the five replacements, then
\* trim().
Sanitized(s) == Trim(ReplaceEach(SANITIZE_PATTERNS, 1, s))

\* Sanitized, computed once for every text of the model.
SanitizedTable == [s \in AllTexts |-> Sanitized(s)]

sanitizeString(input) ==
    IF ~IsString(input) THEN <<>> ELSE SanitizedTable[input.s]

\* /^[a-zA-Z0-9._%+-]+@[a-zA-Z0-9.-]+\.[a-zA-Z]{2,}$/.test(s)
EmailRegexTest(s) ==
    \E at \in 2..Len(s) : \E dot \in (at + 2)..(Len(s) - 2) :
        /\ s[at] = "@"
        /\ s[dot] = "."
        /\ \A k \in 1..(at - 1) : IsEmailLocal(s[k])
        /\ \A k \in (at + 1)..(dot - 1) : IsEmailDomain(s[k])
        /\ \A k \in (dot + 1)..Len(s) : IsLetter(s[k])

\* /^[a-zA-Z0-9_]+$/.test(s)
UsernameRegexTest(s) == Len(s) >= 1 /\ \A k \in 1..Len(s) : IsWord(s[k])

\* /^[a-zA-Z\s\-']+$/.test(s)
NameRegexTest(s) == Len(s) >= 1 /\ \A k \in 1..Len(s) : IsNameChar(s[k])

\* /[a-zA-Z]/.test(s)
HasLetter(s) == \E k \in 1..Len(s) : IsLetter(s[k])

\* /\w/.test(s): a letter or an underscore passes for a digit.
HasWordChar(s) == \E k \in 1..Len(s) : IsWord(s[k])

\* /\d/.test(s)
HasDigit(s) == \E k \in 1..Len(s) : IsDigit(s[k])

\* The pushes of validateEmail in the order length, format, sanitizer.
EmailErrorsLengthFirst(email, sanitized) ==
    PushIf(Len(sanitized) > MAX_EMAIL,
           Msg("Email is too long (max 100 characters)"))
    \o PushIf(~EmailRegexTest(sanitized),
              Msg("Please enter a valid email address"))
    \o PushIf(sanitized # email.s, Msg("Email contains invalid characters"))

\* The pushes of validateEmail after const sanitized = sanitizeString(email)
EmailErrors(email, sanitized) ==
    PushIf(sanitized # email.s, Msg("Email contains invalid characters"))
    \o PushIf(~EmailRegexTest(sanitized),
              Msg("Please enter a valid email address"))
    \o PushIf(Len(sanitized) > MAX_EMAIL,
              Msg("Email is too long (max 100 characters)"))

validateEmail(email) ==
    IF Falsy(email) \/ ~IsString(email) THEN Required(Msg("Email is required"))
    ELSE Result(EmailErrors(email, sanitizeString(email)))

\* The pushes of validateUsername without the comparison of the sanitized
\* text with the input.
UsernameErrorsUncompared(username, sanitized) ==
    PushIf(Len(sanitized) < MIN_USERNAME,
           Msg("Username must be at least 3 characters long"))
    \o PushIf(Len(sanitized) > MAX_USERNAME,
              Msg("Username is too long (max 50 characters)"))
    \o PushIf(~UsernameRegexTest(sanitized),
              Msg("Username can only contain letters, numbers, and underscores"))

\* The pushes of validateUsername after the sanitizer has run
UsernameErrors(username, sanitized) ==
    PushIf(sanitized # username.s, Msg("Username contains invalid characters"))
    \o PushIf(Len(sanitized) < MIN_USERNAME,
              Msg("Username must be at least 3 characters long"))
    \o PushIf(Len(sanitized) > MAX_USERNAME,
              Msg("Username is too long (max 50 characters)"))
    \o PushIf(~UsernameRegexTest(sanitized),
              Msg("Username can only contain letters, numbers, and underscores"))

validateUsername(username) ==
    IF Falsy(username) \/ ~IsString(username)
    THEN Required(Msg("Username is required"))
    ELSE Result(UsernameErrors(username, sanitizeString(username)))

\* The default value of the parameter fieldName, taken when the argument
\* is missing or undefined.
DefaultFieldName == "Name"
LabelOf(fieldName) ==
    IF fieldName = Undefined THEN DefaultFieldName ELSE fieldName.s

\* The pushes of validateName after the sanitizer has run
NameErrors(name, label, sanitized) ==
    PushIf(sanitized # name.s, Labelled(label, " contains invalid characters"))
    \o PushIf(Len(sanitized) < MIN_NAME, Labelled(label, " is required"))
    \o PushIf(Len(sanitized) > MAX_NAME,
              Labelled(label, " is too long (max 50 characters)"))
    \o PushIf(sanitized # <<>> /\ ~NameRegexTest(sanitized),
              Labelled(label, " can only contain letters, spaces, hyphens, and apostrophes"))

validateName(name, fieldName) ==
    IF Falsy(name) \/ ~IsString(name)
    THEN Required(Labelled(LabelOf(fieldName), " is required"))
    ELSE Result(NameErrors(name, LabelOf(fieldName), sanitizeString(name)))

validatePassword(password) ==
    IF Falsy(password) \/ ~IsString(password)
    THEN Required(Msg("Password is required"))
    ELSE Result(
             PushIf(Len(password.s) < MIN_PASSWORD,
                    Msg("Password must be at least 8 characters long"))
             \o PushIf(Len(password.s) > MAX_PASSWORD,
                       Msg("Password is too long (max 128 characters)"))
             \o PushIf(~HasLetter(password.s),
                       Msg("Password must contain at least one letter"))
             \o PushIf(~HasDigit(password.s),
                       Msg("Password must contain at least one number")))

\* What a pattern is matched against: the folded text under the i flag.
Subject(pat, s) == IF pat = "sqlComment" THEN s ELSE Fold(s)

\* The matches of every pattern of the two tables in every text the model
\* tests, computed once.
TestedTexts == AllTexts \cup {SanitizedTable[s] : s \in AllTexts}
MatchTable ==
    [k \in {<<pat, s>> : pat \in Range(XSS_PATTERNS) \cup Range(SQL_INJECTION_PATTERNS),
                         s \in TestedTexts}
        |-> AnchoredMatches(k[1], Subject(k[1], k[2]))]
MatchesOf(pat, s) == MatchTable[<<pat, s>>]

\* pattern.test(s) for a global pattern whose lastIndex is li: the search
\* starts at li; a match leaves lastIndex after it, a failure resets it.
TestOutcome(m) ==
    IF m[1] = NoMatch
    THEN [found |-> FALSE, lastIndex |-> 0]
    ELSE [found |-> TRUE, lastIndex |-> m[2]]
RegExpTest(pat, s, li) == TestOutcome(FirstFrom(MatchesOf(pat, s), li))

\* for (const pattern of pats) { if (pattern.test(s)) { ...; break } }
\* from pattern k on, with li the lastIndex of every pattern of the table.
\* r is the outcome of the k-th pattern's test.
RECURSIVE TestLoop(_, _, _, _)
TestStep(pats, s, li, k, r) ==
    IF r.found
    THEN [found |-> TRUE, lastIndex |-> [li EXCEPT ![k] = r.lastIndex]]
    ELSE TestLoop(pats, s, [li EXCEPT ![k] = r.lastIndex], k + 1)
TestLoop(pats, s, li, k) ==
    IF k > Len(pats) THEN [found |-> FALSE, lastIndex |-> li]
    ELSE TestStep(pats, s, li, k, RegExpTest(pats[k], s, li[k]))

\* The post validators read and write the lastIndex of the SQL patterns:
\* they give the result and the lastIndex they leave.
\* The title's checks with the two length bounds exclusive.
TitleOutcomeExclusive(title, sanitized, loop) ==
    [result |->
         Result(
             PushIf(sanitized # title.s, Msg("Title contains invalid characters"))
             \o PushIf(Len(sanitized) <= MIN_TITLE,
                       Msg("Title must be at least 5 characters long"))
             \o PushIf(Len(sanitized) >= MAX_TITLE,
                       Msg("Title is too long (max 200 characters)"))
             \o PushIf(loop.found, Msg("Title contains invalid content"))),
     sql |-> loop.lastIndex]

\* loop is the outcome of the loop over SQL_INJECTION_PATTERNS.
TitleOutcome(title, sanitized, loop) ==
    [result |->
         Result(
             PushIf(sanitized # title.s, Msg("Title contains invalid characters"))
             \o PushIf(Len(sanitized) < MIN_TITLE,
                       Msg("Title must be at least 5 characters long"))
             \o PushIf(Len(sanitized) > MAX_TITLE,
                       Msg("Title is too long (max 200 characters)"))
             \o PushIf(loop.found, Msg("Title contains invalid content"))),
     sql |-> loop.lastIndex]
TitleChecks(title, sanitized, sql) ==
    TitleOutcome(title, sanitized,
                 TestLoop(SQL_INJECTION_PATTERNS, sanitized, sql, 1))
validatePostTitle(title, sql) ==
    IF Falsy(title) \/ ~IsString(title)
    THEN [result |-> Required(Msg("Title is required")), sql |-> sql]
    ELSE TitleChecks(title, sanitizeString(title), sql)

ContentOutcome(content, sanitized, loop) ==
    [result |->
         Result(
             PushIf(sanitized # content.s,
                    Msg("Content contains invalid characters"))
             \o PushIf(Len(sanitized) < MIN_CONTENT,
                       Msg("Content must be at least 10 characters long"))
             \o PushIf(Len(sanitized) > MAX_CONTENT,
                       Msg("Content is too long (max 10,000 characters)"))
             \o PushIf(loop.found, Msg("Content contains invalid content"))),
     sql |-> loop.lastIndex]
ContentChecks(content, sanitized, sql) ==
    ContentOutcome(content, sanitized,
                   TestLoop(SQL_INJECTION_PATTERNS, sanitized, sql, 1))
validatePostContent(content, sql) ==
    IF Falsy(content) \/ ~IsString(content)
    THEN [result |-> Required(Msg("Content is required")), sql |-> sql]
    ELSE ContentChecks(content, sanitizeString(content), sql)

\* The predicates give the boolean and the lastIndex they leave.
hasXSSContent(input, xss) ==
    IF ~IsString(input) THEN [found |-> FALSE, lastIndex |-> xss]
    ELSE TestLoop(XSS_PATTERNS, input.s, xss, 1)

hasSQLInjectionContent(input, sql) ==
    IF ~IsString(input) THEN [found |-> FALSE, lastIndex |-> sql]
    ELSE TestLoop(SQL_INJECTION_PATTERNS, input.s, sql, 1)

\* The spread under the opposite condition.
SpreadIfValid(r) == IF r.isValid THEN r.errors ELSE <<>>

\* if (!r.isValid) errors.push(...r.errors)
SpreadIfInvalid(r) == IF ~r.isValid THEN r.errors ELSE <<>>

\* userData.confirmPassword && userData.password !== userData.confirmPassword
ConfirmMismatch(userData) ==
    /\ ~Falsy(Field(userData, "confirmPassword"))
    /\ Field(userData, "password") # Field(userData, "confirmPassword")

\* Reading a field of a null or undefined argument throws before any
\* validator runs.
validateUserRegistration(userData) ==
    IF ReadThrows(userData) THEN [threw |-> TRUE]
    ELSE [threw |-> FALSE,
          result |->
              Result(
                  SpreadIfInvalid(validateUsername(Field(userData, "username")))
                  \o SpreadIfInvalid(validateEmail(Field(userData, "email")))
                  \o SpreadIfInvalid(validateName(Field(userData, "firstName"),
                                                  Str("First name")))
                  \o SpreadIfInvalid(validateName(Field(userData, "lastName"),
                                                  Str("Last name")))
                  \o SpreadIfInvalid(validatePassword(Field(userData, "password")))
                  \o PushIf(ConfirmMismatch(userData), Msg("Passwords do not match")))]

\* The title is validated first; the content validator starts from the
\* lastIndex the title validator left.
PostOutcome(titleResult, contentResult) ==
    [threw |-> FALSE,
     result |-> Result(SpreadIfInvalid(titleResult.result)
                       \o SpreadIfInvalid(contentResult.result)),
     sql |-> contentResult.sql]
PostContentStep(postData, titleResult) ==
    PostOutcome(titleResult,
                validatePostContent(Field(postData, "content"), titleResult.sql))
validatePostCreation(postData, sql) ==
    IF ReadThrows(postData) THEN [threw |-> TRUE, sql |-> sql]
    ELSE PostContentStep(postData,
                         validatePostTitle(Field(postData, "title"), sql))

\* The value of this in a call of a static method: the class, the object
\* useInputValidation() returns (a call as its member), or undefined (a
\* call of the destructured function; class code is strict).
Receivers == {"InputValidator", "returned object", "undefined"}
\* The methods a receiver has.
Members(this) ==
    CASE this = "InputValidator" ->
            {"sanitizeString", "validateEmail", "validateUsername",
             "validateName", "validatePassword", "validatePostTitle",
             "validatePostContent", "hasXSSContent", "hasSQLInjectionContent",
             "validateUserRegistration", "validatePostCreation"}
      [] this = "returned object" ->
            {"sanitizeInput", "validateField", "validateUserRegistration",
             "validatePostCreation"}
      [] OTHER -> {}

\* validateUserRegistration called on this: its first statement calls
\* this.validateUsername.
validateUserRegistrationOn(this, userData) ==
    IF "validateUsername" \notin Members(this) THEN [threw |-> TRUE]
    ELSE validateUserRegistration(userData)

\* validatePostCreation called on this: its first statement calls
\* this.validatePostTitle.
validatePostCreationOn(this, postData, sql) ==
    IF "validatePostTitle" \notin Members(this)
    THEN [threw |-> TRUE, sql |-> sql]
    ELSE validatePostCreation(postData, sql)

\* useInputValidation().validateField
FieldTypes == {"email", "username", "name", "password", "title", "content"}
\* The type argument of the calls; "phone" is none of the six.
TypeArgs == FieldTypes \cup {"phone"}

validateField(value, type, fieldName, sql) ==
    CASE type = "email" -> [result |-> validateEmail(value), sql |-> sql]
      [] type = "username" -> [result |-> validateUsername(value), sql |-> sql]
      [] type = "name" -> [result |-> validateName(value, fieldName), sql |-> sql]
      [] type = "password" -> [result |-> validatePassword(value), sql |-> sql]
      [] type = "title" -> validatePostTitle(value, sql)
      [] type = "content" -> validatePostContent(value, sql)
      [] OTHER -> [result |-> [isValid |-> TRUE, errors |-> <<>>], sql |-> sql]

----------------------------------------------------------------------------
(* The Redux store: the values the slices hold, the replies of the API,    *)
(* the payload creators of the async thunks and the reducers.              *)

\* A text held as one piece, for the messages and tokens the store never
\* looks into.
Text(m) == Str(<<m>>)
Bool(b) == [t |-> "boolean", b |-> b]
\* An array; like every object it is truthy, also when empty.
Arr(a) == [t |-> "array", a |-> a]

\* v ?? d
OrElseNullish(v, d) == IF v.t \in {"null", "undefined"} THEN d ELSE v

\* v || d
OrElse(v, d) == IF Falsy(v) THEN d ELSE v

\* `${v}` for a string, null or undefined
TemplateText(v) ==
    IF v.t = "string" THEN v.s
    ELSE IF v.t = "null" THEN <<"null">>
    ELSE <<"undefined">>

\* `Bearer ${token}`
Bearer(token) == Str(<<"Bearer ">> \o TemplateText(token))

User1 == Obj([id |-> Num(1)])
Token1 == Text("token-1")
Token2 == Text("token-2")

Post(id, owner, title, content) ==
    Obj([id |-> Num(id), user_id |-> Num(owner), title |-> Str(title),
         content |-> Str(content), category_id |-> Num(1)])
Post1 == Post(1, 1, TxHelloWorld, TxFinePost)
Post2 == Post(2, 2, TxHey, TxDropTables)
\* Post1 as the API returns it after an update.
Post1Updated == Post(1, 1, TxSelectAll, TxFinePost)

\* const initialState of authSlice; stored is localStorage's token when the
\* module is loaded.
AuthInitial(stored) ==
    [user |-> Null, token |-> stored, isAuthenticated |-> FALSE,
     isLoading |-> ~Falsy(stored), error |-> Null]

\* const initialState of postsSlice
PostsInitial ==
    [posts |-> <<>>, userPosts |-> <<>>, currentPost |-> Null,
     isLoading |-> FALSE, isLoadingUserPosts |-> FALSE, error |-> Null,
     successMessage |-> Null,
     pagination |-> [page |-> 1, limit |-> 20, total |-> 0]]

\* const initialState of externalPostsSlice
ExternalPostsInitial ==
    [posts |-> <<>>, isLoading |-> FALSE, error |-> Null, lastFetched |-> Null]

\* The reply to a request.  fetch or response.json() rejects, or the body
\* is parsed: an APIResponse, some other JSON object, or null.
Failed == [failed |-> TRUE]
Json(body) == [failed |-> FALSE, body |-> body]
Refusal(additionalData) ==
    Json(Obj([success |-> Bool(FALSE), additionalData |-> additionalData]))
Success(message) == Json(Obj([success |-> Bool(TRUE), message |-> message]))
SuccessData(data) == Json(Obj([success |-> Bool(TRUE), data |-> data]))

\* The replies that report no success, whatever the request.
FailureReplies ==
    {Failed, Json(Null), Json(Obj([detail |-> Text("Not authenticated")])),
     Refusal(Null), Refusal(Str(<<>>)), Refusal(Text("Refused by the API"))}

THUNKS ==
    {"auth/login", "auth/register", "auth/getCurrentUser", "posts/fetchPosts",
     "posts/fetchPost", "posts/fetchUserPosts", "posts/createPost",
     "posts/updatePost", "posts/deletePost", "externalPosts/fetchPosts"}

\* The message each payload creator falls back to.
DefaultMessage ==
    [thunk \in THUNKS |->
        CASE thunk = "auth/login" -> "Login failed"
          [] thunk = "auth/register" -> "Registration failed"
          [] thunk = "auth/getCurrentUser" -> "Failed to get user info"
          [] thunk = "posts/fetchPosts" -> "Failed to fetch posts"
          [] thunk = "posts/fetchPost" -> "Failed to fetch post"
          [] thunk = "posts/fetchUserPosts" -> "Failed to fetch user posts"
          [] thunk = "posts/createPost" -> "Failed to create post"
          [] thunk = "posts/updatePost" -> "Failed to update post"
          [] thunk = "posts/deletePost" -> "Failed to delete post"
          [] thunk = "externalPosts/fetchPosts" -> "Failed to fetch external posts"]

\* How a thunk ends: the action it dispatches last.
Fulfilled(payload) == [status |-> "fulfilled", payload |-> payload]
Rejected(payload) == [status |-> "rejected", payload |-> payload]

\* The catch block is entered when the request or the parse fails, and when
\* reading apiResponse.success throws because the body is null.
Caught(reply) == reply.failed \/ ReadThrows(reply.body)

\* !apiResponse.success
Unsuccessful(reply) == Falsy(Field(reply.body, "success"))

\* return rejectWithValue(apiResponse.additionalData || '<default>')
RejectWithDefault(thunk, reply) ==
    Rejected(OrElse(Field(reply.body, "additionalData"),
                    Text(DefaultMessage[thunk])))

\* What the payload creator returns on success.
loginUserValue(message) ==
    IF ~Falsy(Field(message, "access_token")) THEN Fulfilled(message)
    ELSE Rejected(Text("Invalid response format"))

ReturnValue(thunk, arg, body) ==
    CASE thunk = "auth/login" -> loginUserValue(Field(body, "message"))
      [] thunk \in {"posts/fetchPosts", "posts/fetchUserPosts",
                    "externalPosts/fetchPosts"} ->
            Fulfilled(OrElse(Field(body, "data"), Arr(<<>>)))
      [] thunk = "posts/deletePost" -> Fulfilled(arg)
      [] OTHER -> Fulfilled(Field(body, "message"))

\* The body of a payload creator once the reply is in: try { ... } catch.
PayloadCreator(thunk, arg, reply) ==
    IF Caught(reply) THEN Rejected(Text("Network error"))
    ELSE IF Unsuccessful(reply) THEN RejectWithDefault(thunk, reply)
    ELSE ReturnValue(thunk, arg, reply.body)

\* The thunks that send the token, and the header they send.
BearerThunks ==
    {"auth/getCurrentUser", "posts/createPost", "posts/updatePost",
     "posts/deletePost"}
AuthorizationOf(thunk, token) ==
    IF thunk \in BearerThunks THEN Bearer(token) ELSE Undefined

\* A request on its way: the thunk, its argument and the header it carries.
Request(thunk, arg, token) ==
    [thunk |-> thunk, arg |-> arg,
     authorization |-> AuthorizationOf(thunk, token)]

\* authSlice: reducers and extraReducers
authLogout(state) ==
    [state EXCEPT !.user = Null, !.token = Null, !.isAuthenticated = FALSE,
                  !.error = Null]
authClearError(state) == [state EXCEPT !.error = Null]
authSetCredentials(state, payload) ==
    [state EXCEPT !.user = Field(payload, "user"),
                  !.token = Field(payload, "token"),
                  !.isAuthenticated = TRUE, !.error = Null]

authPending(state, thunk) ==
    CASE thunk \in {"auth/login", "auth/register"} ->
            [state EXCEPT !.isLoading = TRUE, !.error = Null]
      [] thunk = "auth/getCurrentUser" -> [state EXCEPT !.isLoading = TRUE]
      [] OTHER -> state

\* The fulfilled reducers, had registerUser.fulfilled been written as
\* loginUser.fulfilled is: the session is authenticated.
authFulfilledSigningIn(state, thunk, payload) ==
    CASE thunk = "auth/login" ->
            [state EXCEPT !.isLoading = FALSE,
                          !.token = Field(payload, "access_token"),
                          !.user = Field(payload, "user"),
                          !.isAuthenticated = TRUE, !.error = Null]
      [] thunk = "auth/register" ->
            [state EXCEPT !.isLoading = FALSE, !.user = payload,
                          !.isAuthenticated = TRUE, !.error = Null]
      [] thunk = "auth/getCurrentUser" ->
            [state EXCEPT !.isLoading = FALSE, !.user = payload,
                          !.isAuthenticated = TRUE, !.error = Null]
      [] OTHER -> state

authFulfilled(state, thunk, payload) ==
    CASE thunk = "auth/login" ->
            [state EXCEPT !.isLoading = FALSE,
                          !.token = Field(payload, "access_token"),
                          !.user = Field(payload, "user"),
                          !.isAuthenticated = TRUE, !.error = Null]
      [] thunk = "auth/register" ->
            [state EXCEPT !.isLoading = FALSE, !.user = payload,
                          !.error = Null]
      [] thunk = "auth/getCurrentUser" ->
            [state EXCEPT !.isLoading = FALSE, !.user = payload,
                          !.isAuthenticated = TRUE, !.error = Null]
      [] OTHER -> state

authRejected(state, thunk, payload) ==
    CASE thunk = "auth/login" ->
            [state EXCEPT !.isLoading = FALSE, !.error = payload,
                          !.isAuthenticated = FALSE]
      [] thunk = "auth/register" ->
            [state EXCEPT !.isLoading = FALSE, !.error = payload]
      [] thunk = "auth/getCurrentUser" ->
            [state EXCEPT !.isLoading = FALSE, !.error = payload,
                          !.isAuthenticated = FALSE, !.token = Null]
      [] OTHER -> state

\* postsSlice: reducers and extraReducers
postsClearCurrentPost(state) == [state EXCEPT !.currentPost = Null]
postsClearError(state) == [state EXCEPT !.error = Null]
postsClearSuccessMessage(state) == [state EXCEPT !.successMessage = Null]

postsPending(state, thunk) ==
    CASE thunk \in {"posts/fetchPosts", "posts/fetchPost", "posts/createPost",
                    "posts/deletePost"} ->
            [state EXCEPT !.isLoading = TRUE, !.error = Null]
      [] thunk = "posts/fetchUserPosts" ->
            [state EXCEPT !.isLoadingUserPosts = TRUE, !.error = Null]
      [] thunk = "posts/updatePost" ->
            [state EXCEPT !.isLoading = TRUE, !.error = Null,
                          !.successMessage = Null]
      [] OTHER -> state

\* post.id === id; currentPost?.id === id
HasId(post, id) == Field(post, "id") = id
\* posts.findIndex(...) and the assignment to posts[index], when found
ReplaceFirst(list, post) ==
    IF \E i \in 1..Len(list) : HasId(list[i], Field(post, "id"))
    THEN [list EXCEPT ![CHOOSE i \in 1..Len(list) :
                            /\ HasId(list[i], Field(post, "id"))
                            /\ \A j \in 1..(i - 1) :
                                   ~HasId(list[j], Field(post, "id"))] = post]
    ELSE list
\* posts.filter((post) => post.id !== id)
Without(list, id) == SelectSeq(list, LAMBDA post : ~HasId(post, id))

postsFulfilled(state, thunk, payload) ==
    CASE thunk = "posts/fetchPosts" ->
            [state EXCEPT !.isLoading = FALSE, !.posts = payload.a,
                          !.pagination.total = Len(payload.a)]
      [] thunk = "posts/fetchPost" ->
            [state EXCEPT !.isLoading = FALSE, !.currentPost = payload]
      [] thunk = "posts/fetchUserPosts" ->
            [state EXCEPT !.isLoadingUserPosts = FALSE,
                          !.userPosts = payload.a]
      [] thunk = "posts/createPost" ->
            [state EXCEPT !.isLoading = FALSE,
                          !.posts = <<payload>> \o state.posts]
      [] thunk = "posts/updatePost" ->
            [state EXCEPT !.isLoading = FALSE,
                          !.successMessage = Text("Post updated successfully!"),
                          !.posts = ReplaceFirst(state.posts, payload),
                          !.currentPost =
                              IF HasId(state.currentPost, Field(payload, "id"))
                              THEN payload ELSE state.currentPost]
      [] thunk = "posts/deletePost" ->
            [state EXCEPT !.isLoading = FALSE,
                          !.posts = Without(state.posts, payload),
                          !.currentPost =
                              IF HasId(state.currentPost, payload)
                              THEN Null ELSE state.currentPost]
      [] OTHER -> state

postsRejected(state, thunk, payload) ==
    CASE thunk \in {"posts/fetchPosts", "posts/fetchPost", "posts/createPost",
                    "posts/deletePost"} ->
            [state EXCEPT !.isLoading = FALSE,
                          !.error = OrElse(payload, Text(DefaultMessage[thunk]))]
      [] thunk = "posts/fetchUserPosts" ->
            [state EXCEPT !.isLoadingUserPosts = FALSE,
                          !.error = OrElse(payload, Text(DefaultMessage[thunk]))]
      [] thunk = "posts/updatePost" ->
            [state EXCEPT !.isLoading = FALSE,
                          !.error = OrElse(payload, Text(DefaultMessage[thunk])),
                          !.successMessage = Null]
      [] OTHER -> state

\* externalPostsSlice: reducers and extraReducers
externalClearError(state) == [state EXCEPT !.error = Null]
externalClearPosts(state) ==
    [state EXCEPT !.posts = <<>>, !.lastFetched = Null]

externalPending(state, thunk) ==
    IF thunk = "externalPosts/fetchPosts"
    THEN [state EXCEPT !.isLoading = TRUE, !.error = Null]
    ELSE state

\* now is new Date().toISOString()
externalFulfilled(state, thunk, payload, now) ==
    IF thunk = "externalPosts/fetchPosts"
    THEN [state EXCEPT !.isLoading = FALSE, !.posts = payload.a,
                       !.lastFetched = now, !.error = Null]
    ELSE state

externalRejected(state, thunk, payload) ==
    IF thunk = "externalPosts/fetchPosts"
    THEN [state EXCEPT !.isLoading = FALSE, !.error = payload]
    ELSE state

\* localStorage after a thunk ends: loginUser stores the token it got,
\* getCurrentUser.rejected removes the item.
StoredAfter(stored, thunk, end) ==
    IF thunk = "auth/login" /\ end.status = "fulfilled"
    THEN Field(end.payload, "access_token")
    ELSE IF thunk = "auth/getCurrentUser" /\ end.status = "rejected"
    THEN Null
    ELSE stored

----------------------------------------------------------------------------
(* The forms of RegisterPage, CreatePostPage and EditPostPage: the local   *)
(* state of the mounted component and what its handlers do with it.        *)

\* POST_VALIDATION of utils/constants.ts
TITLE_MIN_LENGTH == 3
TITLE_MAX_LENGTH == 200
CONTENT_MIN_LENGTH == 10

RegisterFields ==
    {"username", "email", "password", "confirmPassword", "first_name",
     "last_name"}
PostFields == {"title", "content", "category_id"}
FieldsOf(p) ==
    IF p = "register" THEN RegisterFields
    ELSE IF p \in {"create-post", "edit-post"} THEN PostFields
    ELSE {}

\* useState({ username: '', ... }): every field starts empty.
Blank(p) == [f \in FieldsOf(p) |-> <<>>]
\* A field no change event has set.
NotTyped == [t |-> "undefined"]
Untouched(p) == [f \in FieldsOf(p) |-> NotTyped]
\* useState<Record<string, string>>({})
NoErrors == [f \in {} |-> <<>>]
\* No thunk call is awaited.
NoCall == [thunk |-> "none"]
ThunkCall(thunk, arg) == [thunk |-> thunk, arg |-> arg]

\* An error message is the pieces of its template; '' has none.
Piece(text) == <<text>>
AtLeast(what, n) == <<what, n, " characters">>

\* The keys an errors object was given: the fields whose check failed.
Failing(checks) == [f \in {g \in DOMAIN checks : checks[g] # <<>>} |-> checks[f]]

\* RegisterPage.validateForm: simpleErrors
RegisterChecks(data) ==
    [f \in RegisterFields |->
        CASE f = "username" ->
                IF Trim(data.username) = <<>> THEN Piece("Username is required")
                ELSE <<>>
          [] f = "email" ->
                IF Trim(data.email) = <<>> THEN Piece("Email is required")
                ELSE <<>>
          [] f = "first_name" ->
                IF Trim(data.first_name) = <<>>
                THEN Piece("First name is required") ELSE <<>>
          [] f = "last_name" ->
                IF Trim(data.last_name) = <<>>
                THEN Piece("Last name is required") ELSE <<>>
          [] f = "password" ->
                IF data.password = <<>> THEN Piece("Password is required")
                ELSE IF Len(data.password) < 8
                THEN Piece("Password must be at least 8 characters")
                ELSE <<>>
          [] f = "confirmPassword" ->
                IF data.confirmPassword = <<>>
                THEN Piece("Please confirm your password")
                ELSE IF data.password # data.confirmPassword
                THEN Piece("Passwords do not match")
                ELSE <<>>]
RegisterErrors(data) == Failing(RegisterChecks(data))

\* CreatePostPage.validateForm and EditPostPage.validateForm: errors
PostChecks(data) ==
    [f \in {"title", "content"} |->
        CASE f = "title" ->
                IF Trim(data.title) = <<>> THEN Piece("Title is required")
                ELSE IF Len(data.title) < TITLE_MIN_LENGTH
                THEN AtLeast("Title must be at least ", TITLE_MIN_LENGTH)
                ELSE IF Len(data.title) > TITLE_MAX_LENGTH
                THEN AtLeast("Title must be less than ", TITLE_MAX_LENGTH)
                ELSE <<>>
          [] f = "content" ->
                IF Trim(data.content) = <<>> THEN Piece("Content is required")
                ELSE IF Len(data.content) < CONTENT_MIN_LENGTH
                THEN AtLeast("Content must be at least ", CONTENT_MIN_LENGTH)
                ELSE <<>>]
PostErrors(data) == Failing(PostChecks(data))

\* Object.keys(errors).length === 0
IsValidForm(errors) == DOMAIN errors = {}

\* parseInt of a text of decimal digits
DigitValue(c) == CHOOSE d \in 0..9 : ToString(d) = c
RECURSIVE ParseDigits(_, _)
ParseDigits(s, n) ==
    IF s = <<>> THEN n ELSE ParseDigits(Tail(s), 10 * n + DigitValue(Head(s)))
\* formData.category_id ? parseInt(formData.category_id) : undefined
CategoryOf(text) == IF text = <<>> THEN Undefined ELSE Num(ParseDigits(text, 0))
\* currentPost.category_id?.toString() || ''
CategoryText(v) == IF v.t = "number" THEN <<ToString(v.n)>> ELSE <<>>

\* const { confirmPassword, ...registrationData } = formData
RegistrationData(data) ==
    Obj([f \in RegisterFields \ {"confirmPassword"} |-> Str(data[f])])

\* CreatePostPage.handleSubmit: postData
PostData(data, user) ==
    Obj([title |-> Str(Trim(data.title)), content |-> Str(Trim(data.content)),
         user_id |-> Field(user, "id"),
         category_id |-> CategoryOf(data.category_id)])

\* EditPostPage.handleSubmit: updateData
UpdateData(data, id) ==
    Obj([id |-> id, title |-> Str(Trim(data.title)),
         content |-> Str(Trim(data.content)),
         category_id |-> CategoryOf(data.category_id)])

\* EditPostPage's effect on currentPost: the form takes the post's values.
FormOf(post) ==
    [f \in PostFields |->
        CASE f = "title" -> Field(post, "title").s
          [] f = "content" -> Field(post, "content").s
          [] f = "category_id" -> CategoryText(Field(post, "category_id"))]

\* if (validationErrors[field]) setValidationErrors({ ...prev, [field]: '' })
Cleared(errors, field) ==
    IF field \in DOMAIN errors /\ errors[field] # <<>>
    THEN [errors EXCEPT ![field] = <<>>]
    ELSE errors
\* if (validationErrors[field]) { delete newErrors[field] }
Deleted(errors, field) ==
    IF field \in DOMAIN errors /\ errors[field] # <<>>
    THEN [f \in DOMAIN errors \ {field} |-> errors[f]]
    ELSE errors

\* The values the change events carry, per field.
RegisterInputs ==
    [f \in RegisterFields |->
        CASE f = "username" -> {TxValidUser, TxSpaces}
          [] f = "email" -> {TxEmailOk, TxBadEmail}
          [] f = "first_name" -> {TxAnn}
          [] f = "last_name" -> {TxLee}
          [] f = "password" -> {TxPwOk, TxPwNoDigit, TxPwPadded, TxPwShort}
          [] f = "confirmPassword" -> {TxPwOk, TxPwNoDigit}]
PostInputs ==
    [f \in PostFields |->
        CASE f = "title" -> {TxHey, TxHelloWorld, TxScriptAlert, TxSpaceAbc}
          [] f = "content" -> {TxFinePost, TxShort, TxDropTables}
          [] f = "category_id" -> {<<"2">>}]

----------------------------------------------------------------------------
(* The state machine: any operation may be called at any time.             *)

Call(op, args, ret) == [op |-> op, args |-> args, threw |-> FALSE, ret |-> ret]
Throw(op, args) == [op |-> op, args |-> args, threw |-> TRUE, ret |-> Undefined]

\* No form is mounted.
PagesIdle ==
    /\ page = "elsewhere"
    /\ routeId = Undefined
    /\ formData = Blank("elsewhere")
    /\ typed = Untouched("elsewhere")
    /\ validationErrors = NoErrors
    /\ isSubmitting = FALSE
    /\ dispatched = NoCall

\* The store as the modules create it, with stored the token localStorage
\* holds.
StoreLoaded(stored) ==
    /\ auth = AuthInitial(stored)
    /\ posts = PostsInitial
    /\ externalPosts = ExternalPostsInitial
    /\ localToken = stored
    /\ loggedOut = FALSE
    /\ inFlight = {}
    /\ sent = 0
    /\ settled = NoCall

\* The two pattern tables as the class defines them, and no call made.
ValidatorsLoaded ==
    /\ xssLastIndex = Pristine(XSS_PATTERNS)
    /\ sqlLastIndex = Pristine(SQL_INJECTION_PATTERNS)
    /\ last = Call("none", <<>>, Undefined)

Init == ValidatorsLoaded /\ PagesIdle /\ StoreLoaded(Null)

\* The calls of the operations that read no pattern state, with their
\* outcomes.
SanitizeCalls ==
    {Call("sanitizeString", <<v>>, sanitizeString(v)) :
        v \in Strs(SanitizeTexts) \cup NonText}
EmailCalls ==
    {Call("validateEmail", <<v>>, validateEmail(v)) :
        v \in Strs(EmailTexts) \cup NonText}
UsernameCalls ==
    {Call("validateUsername", <<v>>, validateUsername(v)) :
        v \in Strs(UsernameTexts) \cup NonText}
NameCalls ==
    {Call("validateName", <<a[1], a[2]>>, validateName(a[1], a[2])) :
        a \in ((Strs(NameTexts) \cup NonText) \X {Undefined})
              \cup (LabelledNames \X {Str(TxFirstName)})}
PasswordCalls ==
    {Call("validatePassword", <<v>>, validatePassword(v)) :
        v \in Strs(PasswordTexts) \cup NonText}
Outcome(op, args, r) ==
    IF r.threw THEN Throw(op, args) ELSE Call(op, args, r.result)
RegistrationCalls ==
    {Outcome("validateUserRegistration", <<userData>>,
             validateUserRegistration(userData)) :
        userData \in UserObjects \cup NonObjects}

SanitizeString ==
    \E c \in SanitizeCalls :
        /\ last' = c
        /\ UNCHANGED <<xssLastIndex, sqlLastIndex, pageVars, storeVars>>

ValidateEmail ==
    \E c \in EmailCalls :
        /\ last' = c
        /\ UNCHANGED <<xssLastIndex, sqlLastIndex, pageVars, storeVars>>

ValidateUsername ==
    \E c \in UsernameCalls :
        /\ last' = c
        /\ UNCHANGED <<xssLastIndex, sqlLastIndex, pageVars, storeVars>>

ValidateName ==
    \E c \in NameCalls :
        /\ last' = c
        /\ UNCHANGED <<xssLastIndex, sqlLastIndex, pageVars, storeVars>>

ValidatePassword ==
    \E c \in PasswordCalls :
        /\ last' = c
        /\ UNCHANGED <<xssLastIndex, sqlLastIndex, pageVars, storeVars>>

ValidatePostTitle ==
    \E v \in Strs(TitleTexts) \cup NonText :
        \E r \in {validatePostTitle(v, sqlLastIndex)} :
            /\ last' = Call("validatePostTitle", <<v>>, r.result)
            /\ sqlLastIndex' = r.sql
            /\ UNCHANGED <<xssLastIndex, pageVars, storeVars>>

ValidatePostContent ==
    \E v \in Strs(ContentTexts) \cup NonText :
        \E r \in {validatePostContent(v, sqlLastIndex)} :
            /\ last' = Call("validatePostContent", <<v>>, r.result)
            /\ sqlLastIndex' = r.sql
            /\ UNCHANGED <<xssLastIndex, pageVars, storeVars>>

HasXSSContent ==
    \E v \in Strs(XssTexts) \cup NonText :
        \E r \in {hasXSSContent(v, xssLastIndex)} :
            /\ last' = Call("hasXSSContent", <<v>>, r.found)
            /\ xssLastIndex' = r.lastIndex
            /\ UNCHANGED <<sqlLastIndex, pageVars, storeVars>>

HasSQLInjectionContent ==
    \E v \in Strs(SqlTexts) \cup NonText :
        \E r \in {hasSQLInjectionContent(v, sqlLastIndex)} :
            /\ last' = Call("hasSQLInjectionContent", <<v>>, r.found)
            /\ sqlLastIndex' = r.lastIndex
            /\ UNCHANGED <<xssLastIndex, pageVars, storeVars>>

ValidateUserRegistration ==
    \E c \in RegistrationCalls :
        /\ last' = c
        /\ UNCHANGED <<xssLastIndex, sqlLastIndex, pageVars, storeVars>>

ValidatePostCreation ==
    \E postData \in PostObjects \cup NonObjects :
        \E r \in {validatePostCreation(postData, sqlLastIndex)} :
            /\ last' = Outcome("validatePostCreation", <<postData>>, r)
            /\ sqlLastIndex' = r.sql
            /\ UNCHANGED <<xssLastIndex, pageVars, storeVars>>

ValidateField ==
    \E value \in FieldValues : \E type \in TypeArgs :
        \E r \in {validateField(value, type, Undefined, sqlLastIndex)} :
            /\ last' = Call("validateField", <<value, Str(<<type>>), Undefined>>,
                            r.result)
            /\ sqlLastIndex' = r.sql
            /\ UNCHANGED <<xssLastIndex, pageVars, storeVars>>

\* The two composite validators as useInputValidation() returns them,
\* called as members of the returned object or after destructuring.
HookOps ==
    {"useInputValidation().validateUserRegistration",
     "useInputValidation().validatePostCreation"}

UseValidateUserRegistration ==
    \E this \in Receivers \ {"InputValidator"} :
        \E userData \in UserObjects \cup NonObjects :
            /\ last' = Outcome("useInputValidation().validateUserRegistration",
                               <<userData>>,
                               validateUserRegistrationOn(this, userData))
            /\ UNCHANGED <<xssLastIndex, sqlLastIndex, pageVars, storeVars>>

UseValidatePostCreation ==
    \E this \in Receivers \ {"InputValidator"} :
        \E postData \in PostObjects \cup NonObjects :
            \E r \in {validatePostCreationOn(this, postData, sqlLastIndex)} :
                /\ last' = Outcome("useInputValidation().validatePostCreation",
                                   <<postData>>, r)
                /\ sqlLastIndex' = r.sql
                /\ UNCHANGED <<xssLastIndex, pageVars, storeVars>>

Next ==
    \/ SanitizeString
    \/ ValidateEmail
    \/ ValidateUsername
    \/ ValidateName
    \/ ValidatePassword
    \/ ValidatePostTitle
    \/ ValidatePostContent
    \/ HasXSSContent
    \/ HasSQLInjectionContent
    \/ ValidateUserRegistration
    \/ ValidatePostCreation
    \/ ValidateField
    \/ UseValidateUserRegistration
    \/ UseValidatePostCreation

Spec == Init /\ [][Next]_vars

----------------------------------------------------------------------------
(* The forms: one of the three form components is mounted and shown, and   *)
(* the store does not change while it is edited.  What the submit handler  *)
(* dispatches is kept in dispatched until the awaited call settles.        *)

\* A user who is logged in, as loginUser.fulfilled leaves state.auth.
LoggedIn ==
    [user |-> User1, token |-> Token1, isAuthenticated |-> TRUE,
     isLoading |-> FALSE, error |-> Null]

\* The component of the route, after its first render and effects.
Mounted(p, id, data) ==
    /\ page = p
    /\ routeId = id
    /\ formData = data
    /\ typed = Untouched(p)
    /\ validationErrors = NoErrors
    /\ isSubmitting = FALSE
    /\ dispatched = NoCall

\* RegisterPage for a visitor; CreatePostPage for a user who is logged in;
\* EditPostPage for that user on /edit-post/1, once fetchPost(1) is
\* fulfilled and the effect has copied currentPost into the form.
FormInit ==
    /\ ValidatorsLoaded
    /\ \/ /\ Mounted("register", Undefined, Blank("register"))
          /\ auth = AuthInitial(Null)
          /\ posts = PostsInitial
       \/ /\ Mounted("create-post", Undefined, Blank("create-post"))
          /\ auth = LoggedIn
          /\ posts = PostsInitial
       \/ /\ Mounted("edit-post", Num(1), FormOf(Post1))
          /\ auth = LoggedIn
          /\ posts = [PostsInitial EXCEPT !.currentPost = Post1]
    /\ localToken = auth.token
    /\ loggedOut = FALSE
    /\ externalPosts = ExternalPostsInitial
    /\ inFlight = {}
    /\ sent = 0
    /\ settled = NoCall

\* The page awaits the call it dispatched: the slice is loading, which
\* disables the register form and the submit buttons.
Awaiting == dispatched # NoCall

\* RegisterPage.handleInputChange
RegisterHandleInputChange ==
    /\ page = "register"
    /\ ~Awaiting
    /\ \E field \in RegisterFields : \E value \in RegisterInputs[field] :
        /\ formData' = [formData EXCEPT ![field] = sanitizeString(Str(value))]
        /\ typed' = [typed EXCEPT ![field] = Str(value)]
        /\ validationErrors' = Cleared(validationErrors, field)
    /\ UNCHANGED <<page, routeId, isSubmitting, dispatched, validatorVars, storeVars>>

\* RegisterPage.handleSubmit, up to the awaited dispatch
RegisterHandleSubmit ==
    /\ page = "register"
    /\ ~Awaiting
    /\ \E errors \in {RegisterErrors(formData)} :
        /\ validationErrors' = errors
        /\ dispatched' =
               IF IsValidForm(errors)
               THEN ThunkCall("auth/register", RegistrationData(formData))
               ELSE dispatched
    /\ UNCHANGED <<page, routeId, formData, typed, isSubmitting, validatorVars, storeVars>>

\* CreatePostPage.handleInputChange
CreateHandleInputChange ==
    /\ page = "create-post"
    /\ \E field \in PostFields : \E value \in PostInputs[field] :
        /\ formData' = [formData EXCEPT ![field] = value]
        /\ typed' = [typed EXCEPT ![field] = Str(value)]
        /\ validationErrors' = Cleared(validationErrors, field)
    /\ UNCHANGED <<page, routeId, isSubmitting, dispatched, validatorVars, storeVars>>

\* CreatePostPage.handleSubmit, up to the awaited dispatch
CreateHandleSubmit ==
    /\ page = "create-post"
    /\ ~Awaiting
    /\ \E errors \in {PostErrors(formData)} :
        /\ validationErrors' = errors
        /\ dispatched' =
               IF IsValidForm(errors) /\ ~Falsy(auth.user)
               THEN ThunkCall("posts/createPost", PostData(formData, auth.user))
               ELSE dispatched
    /\ UNCHANGED <<page, routeId, formData, typed, isSubmitting, validatorVars, storeVars>>

\* EditPostPage.handleInputChange
EditHandleInputChange ==
    /\ page = "edit-post"
    /\ ~Awaiting
    /\ \E field \in PostFields : \E value \in PostInputs[field] :
        /\ formData' = [formData EXCEPT ![field] = value]
        /\ typed' = [typed EXCEPT ![field] = Str(value)]
        /\ validationErrors' = Deleted(validationErrors, field)
    /\ UNCHANGED <<page, routeId, isSubmitting, dispatched, validatorVars, storeVars>>

\* EditPostPage.handleSubmit, up to the awaited dispatch
EditHandleSubmit ==
    /\ page = "edit-post"
    /\ ~Awaiting
    /\ \E errors \in {PostErrors(formData)} :
        /\ validationErrors' = errors
        /\ IF IsValidForm(errors) /\ ~Falsy(routeId)
           THEN /\ isSubmitting' = TRUE
                /\ dispatched' =
                       ThunkCall("posts/updatePost", UpdateData(formData, routeId))
           ELSE UNCHANGED <<isSubmitting, dispatched>>
    /\ UNCHANGED <<page, routeId, formData, typed, validatorVars, storeVars>>

\* The awaited call is fulfilled: RegisterPage and CreatePostPage navigate
\* away and are unmounted; EditPostPage stays and resets isSubmitting.
SubmitFulfilled ==
    /\ Awaiting
    /\ dispatched' = NoCall
    /\ isSubmitting' = FALSE
    /\ IF page \in {"register", "create-post"}
       THEN /\ page' = "elsewhere"
            /\ formData' = Blank("elsewhere")
            /\ typed' = Untouched("elsewhere")
            /\ validationErrors' = NoErrors
            /\ UNCHANGED routeId
       ELSE UNCHANGED <<page, routeId, formData, typed, validationErrors>>
    /\ UNCHANGED <<validatorVars, storeVars>>

\* The awaited call is rejected: unwrap() throws into the catch block,
\* and EditPostPage's finally resets isSubmitting.
SubmitRejected ==
    /\ Awaiting
    /\ dispatched' = NoCall
    /\ isSubmitting' = FALSE
    /\ UNCHANGED <<page, routeId, formData, typed, validationErrors, validatorVars, storeVars>>

FormNext ==
    \/ RegisterHandleInputChange
    \/ RegisterHandleSubmit
    \/ CreateHandleInputChange
    \/ CreateHandleSubmit
    \/ EditHandleInputChange
    \/ EditHandleSubmit
    \/ SubmitFulfilled
    \/ SubmitRejected

FormSpec == FormInit /\ [][FormNext]_vars

----------------------------------------------------------------------------
(* The store: the pages dispatch actions and thunks, and the requests in   *)
(* flight are answered in any order.  A thunk's dispatch runs the pending  *)
(* reducers and the payload creator up to its fetch, which sends the       *)
(* request with the token state.auth holds at that moment; the reply runs  *)
(* the rest of the payload creator and the reducers of the action it ends  *)
(* with.                                                                   *)

\* How many requests a session sends.
MaxSent == 3

\* The store starts with the token of an earlier visit, or with none.
StoreInit ==
    /\ ValidatorsLoaded
    /\ PagesIdle
    /\ \E stored \in {Null, Token1} : StoreLoaded(stored)

\* What a protected route of App shows for path: the spinner while
\* state.auth is loading, the page to the authenticated, else /login.
ProtectedRoute(state, path) ==
    IF state.isLoading THEN "spinner"
    ELSE IF state.isAuthenticated THEN path
    ELSE "/login"

\* ProtectedRoute renders the page.
Protected == auth.isAuthenticated /\ ~auth.isLoading

\* dispatch(thunk(arg))
Send(thunk, arg) ==
    /\ sent < MaxSent
    /\ sent' = sent + 1
    /\ auth' = authPending(auth, thunk)
    /\ posts' = postsPending(posts, thunk)
    /\ externalPosts' = externalPending(externalPosts, thunk)
    /\ inFlight' = inFlight \cup {Request(thunk, arg, auth.token)}
    /\ settled' = NoCall
    /\ UNCHANGED <<localToken, loggedOut, validatorVars, pageVars>>

\* LoginPage.handleSubmit; the page leaves when isAuthenticated.
LoginUser == ~auth.isAuthenticated /\ Send("auth/login", Undefined)

\* RegisterPage.handleSubmit; its button is disabled while isLoading.
RegisterUser == ~auth.isLoading /\ Send("auth/register", Undefined)

\* App's effect: if (token) dispatch(getCurrentUser())
GetCurrentUser == ~Falsy(auth.token) /\ Send("auth/getCurrentUser", Undefined)

\* PostsPage's effect and handleDeletePost
FetchPosts == Protected /\ Send("posts/fetchPosts", Undefined)

\* PostDetailPage's and EditPostPage's effect
FetchPost == Protected /\ \E id \in {1, 2} : Send("posts/fetchPost", Num(id))

\* ProfilePage's effect: if (user?.id)
FetchUserPosts ==
    /\ Protected
    /\ ~Falsy(Field(auth.user, "id"))
    /\ Send("posts/fetchUserPosts", Field(auth.user, "id"))

\* CreatePostPage.handleSubmit: if (!user) return
CreatePost ==
    /\ Protected
    /\ ~Falsy(auth.user)
    /\ Send("posts/createPost", Undefined)

\* EditPostPage.handleSubmit, the form shown: currentPost is loaded
UpdatePost ==
    /\ Protected
    /\ ~Falsy(posts.currentPost)
    /\ Send("posts/updatePost", Field(posts.currentPost, "id"))

\* PostDetailPage.handleDeletePost, its button shown to the author
DeletePost ==
    /\ Protected
    /\ ~Falsy(posts.currentPost)
    /\ Field(auth.user, "id") = Field(posts.currentPost, "user_id")
    /\ Send("posts/deletePost", Field(posts.currentPost, "id"))

\* ExternalPostsPage's effect and handleRefresh
FetchExternalPosts == Protected /\ Send("externalPosts/fetchPosts", Undefined)

\* Navbar.handleLogout, its menu shown when isAuthenticated
Logout ==
    /\ auth.isAuthenticated
    /\ auth' = authLogout(auth)
    /\ localToken' = Null
    /\ loggedOut' = TRUE
    /\ settled' = NoCall
    /\ UNCHANGED <<posts, externalPosts, inFlight, sent, validatorVars, pageVars>>

\* dispatch(setCredentials({ user, token }))
SetCredentials ==
    /\ auth' = authSetCredentials(auth, Obj([user |-> User1, token |-> Token2]))
    /\ settled' = NoCall
    /\ loggedOut' = FALSE
    /\ UNCHANGED <<posts, externalPosts, localToken, inFlight, sent, validatorVars, pageVars>>

\* dispatch(clearError()) of each slice
ClearError ==
    /\ \/ /\ auth' = authClearError(auth)
          /\ UNCHANGED <<posts, externalPosts>>
       \/ /\ posts' = postsClearError(posts)
          /\ UNCHANGED <<auth, externalPosts>>
       \/ /\ externalPosts' = externalClearError(externalPosts)
          /\ UNCHANGED <<auth, posts>>
    /\ settled' = NoCall
    /\ UNCHANGED <<localToken, loggedOut, inFlight, sent, validatorVars, pageVars>>

\* EditPostPage's cleanup: clearCurrentPost and clearSuccessMessage
ClearCurrentPost ==
    /\ posts' = postsClearSuccessMessage(postsClearCurrentPost(posts))
    /\ settled' = NoCall
    /\ UNCHANGED <<auth, externalPosts, localToken, loggedOut, inFlight, sent,
                   validatorVars, pageVars>>

\* EditPostPage's timer: clearSuccessMessage
ClearSuccessMessage ==
    /\ posts' = postsClearSuccessMessage(posts)
    /\ settled' = NoCall
    /\ UNCHANGED <<auth, externalPosts, localToken, loggedOut, inFlight, sent,
                   validatorVars, pageVars>>

\* dispatch(clearPosts()) of externalPostsSlice
ClearPosts ==
    /\ externalPosts' = externalClearPosts(externalPosts)
    /\ settled' = NoCall
    /\ UNCHANGED <<auth, posts, localToken, loggedOut, inFlight, sent,
                   validatorVars, pageVars>>

\* The replies the API can give to a request that it does not refuse.
Post3 == Post(3, 1, TxSelectAll, TxFinePost)
ExternalPost1 == Obj([id |-> Num(1), userId |-> Num(1)])
PostOfId(id) ==
    IF id = Num(1) THEN Post1 ELSE IF id = Num(3) THEN Post3 ELSE Post2
SuccessReplies(r) ==
    CASE r.thunk = "auth/login" ->
            {Success(Obj([access_token |-> Token1, user |-> User1])),
             Success(Null)}
      [] r.thunk \in {"auth/register", "auth/getCurrentUser"} ->
            {Success(User1)}
      [] r.thunk = "posts/fetchPosts" ->
            {SuccessData(Arr(<<Post1, Post2>>)), SuccessData(Undefined)}
      [] r.thunk = "posts/fetchPost" -> {Success(PostOfId(r.arg))}
      [] r.thunk = "posts/fetchUserPosts" -> {SuccessData(Arr(<<Post1>>))}
      [] r.thunk = "posts/createPost" -> {Success(Post3)}
      [] r.thunk = "posts/updatePost" -> {Success(Post1Updated)}
      [] r.thunk = "posts/deletePost" -> {Success(Null)}
      [] r.thunk = "externalPosts/fetchPosts" ->
            {SuccessData(Arr(<<ExternalPost1>>))}
Replies(r) == FailureReplies \cup SuccessReplies(r)

\* new Date().toISOString() when the external posts arrive
Times == {Text("2024-01-01T00:00:00.000Z")}

\* The thunk that completed in the step just taken: its reply and the
\* action it ended with.
Settled(r, reply, end) ==
    [thunk |-> r.thunk, reply |-> reply, status |-> end.status,
     payload |-> end.payload]

\* A request is answered and its thunk ends fulfilled.
ThunkFulfilled ==
    \E r \in inFlight : \E reply \in Replies(r) : \E now \in Times :
        \E end \in {PayloadCreator(r.thunk, r.arg, reply)} :
            /\ end.status = "fulfilled"
            /\ inFlight' = inFlight \ {r}
            /\ auth' = authFulfilled(auth, r.thunk, end.payload)
            /\ posts' = postsFulfilled(posts, r.thunk, end.payload)
            /\ externalPosts' =
                   externalFulfilled(externalPosts, r.thunk, end.payload, now)
            /\ localToken' = StoredAfter(localToken, r.thunk, end)
            /\ loggedOut' = (loggedOut /\ r.thunk # "auth/login")
            /\ settled' = Settled(r, reply, end)
            /\ UNCHANGED <<sent, validatorVars, pageVars>>

\* A request is answered, or fails, and its thunk ends rejected.
ThunkRejected ==
    \E r \in inFlight : \E reply \in Replies(r) :
        \E end \in {PayloadCreator(r.thunk, r.arg, reply)} :
            /\ end.status = "rejected"
            /\ inFlight' = inFlight \ {r}
            /\ auth' = authRejected(auth, r.thunk, end.payload)
            /\ posts' = postsRejected(posts, r.thunk, end.payload)
            /\ externalPosts' =
                   externalRejected(externalPosts, r.thunk, end.payload)
            /\ localToken' = StoredAfter(localToken, r.thunk, end)
            /\ settled' = Settled(r, reply, end)
            /\ UNCHANGED <<loggedOut, sent, validatorVars, pageVars>>

StoreNext ==
    \/ LoginUser
    \/ RegisterUser
    \/ GetCurrentUser
    \/ FetchPosts
    \/ FetchPost
    \/ FetchUserPosts
    \/ CreatePost
    \/ UpdatePost
    \/ DeletePost
    \/ FetchExternalPosts
    \/ Logout
    \/ SetCredentials
    \/ ClearError
    \/ ClearCurrentPost
    \/ ClearSuccessMessage
    \/ ClearPosts
    \/ ThunkFulfilled
    \/ ThunkRejected

StoreSpec == StoreInit /\ [][StoreNext]_vars

----------------------------------------------------------------------------
(* The post pages: a logged-in user moves between PostsPage, PostDetailPage *)
(* and EditPostPage.  Mounting a page runs its effects, leaving            *)
(* EditPostPage runs its cleanup, and a reply runs the reducers and then   *)
(* the effects of the page that is mounted.                                *)

\* How many requests the user's clicks send in a session.
MaxVisits == 4

\* The posts of the API: Post1 and Post3 are the user's, Post2 is not.
AllPosts == <<Post1, Post2, Post3>>

\* PostsPage after its fetchPosts was fulfilled.
PostPagesInit ==
    /\ ValidatorsLoaded
    /\ Mounted("posts", Undefined, Blank("posts"))
    /\ auth = LoggedIn
    /\ posts = [PostsInitial EXCEPT !.posts = AllPosts,
                                    !.pagination.total = Len(AllPosts)]
    /\ externalPosts = ExternalPostsInitial
    /\ localToken = auth.token
    /\ loggedOut = FALSE
    /\ inFlight = {}
    /\ sent = 0
    /\ settled = NoCall

\* user?.id === post.user_id
Owns(user, post) == Field(user, "id") = Field(post, "user_id")

\* state.posts once page p is unmounted: EditPostPage's effect cleanup.
Leaving(state, p) ==
    IF p = "edit-post"
    THEN postsClearSuccessMessage(postsClearCurrentPost(state))
    ELSE state

\* A page component is mounted: its useState initial values, or for
\* EditPostPage the form its effect sets.
Mount(p, id, data) ==
    /\ page' = p
    /\ routeId' = id
    /\ formData' = data
    /\ typed' = Untouched(p)
    /\ validationErrors' = NoErrors
    /\ isSubmitting' = FALSE
    /\ dispatched' = NoCall

\* navigate('/posts'): the page is left, PostsPage is mounted and its
\* effect dispatches fetchPosts.  state is state.posts before the move.
GoToPosts(state, flying) ==
    /\ Mount("posts", Undefined, Blank("posts"))
    /\ posts' = postsPending(Leaving(state, page), "posts/fetchPosts")
    /\ inFlight' =
           flying \cup {Request("posts/fetchPosts", Undefined, auth.token)}

\* PostsPage is shown with its list; PostDetailPage and EditPostPage show
\* currentPost.
ListShown == page = "posts" /\ ~posts.isLoading
DetailShown ==
    /\ page = "post-detail"
    /\ ~posts.isLoading
    /\ Falsy(posts.error)
    /\ ~Falsy(posts.currentPost)
EditFormShown ==
    /\ page = "edit-post"
    /\ ~posts.isLoading
    /\ ~Falsy(posts.currentPost)

\* Sidebar's Posts item and the Back buttons: navigate('/posts')
OpenPostsPage ==
    /\ page # "posts"
    /\ sent < MaxVisits
    /\ sent' = sent + 1
    /\ GoToPosts(posts, inFlight)
    /\ settled' = NoCall
    /\ UNCHANGED <<auth, externalPosts, localToken, loggedOut, validatorVars>>

\* PostsPage's Read More: navigate(`/posts/${post.id}`); PostDetailPage's
\* effect dispatches fetchPost(parseInt(id)).
OpenPostDetail ==
    /\ ListShown
    /\ sent < MaxVisits
    /\ sent' = sent + 1
    /\ \E post \in Range(posts.posts) :
        /\ Mount("post-detail", Field(post, "id"), Blank("post-detail"))
        /\ inFlight' = inFlight \cup
               {Request("posts/fetchPost", Field(post, "id"), auth.token)}
    /\ posts' = postsPending(posts, "posts/fetchPost")
    /\ settled' = NoCall
    /\ UNCHANGED <<auth, externalPosts, localToken, loggedOut, validatorVars>>

\* The posts whose Edit button is on the page.
Editable ==
    IF ListShown
    THEN {post \in Range(posts.posts) : Owns(auth.user, post)}
    ELSE IF DetailShown /\ Owns(auth.user, posts.currentPost)
    THEN {posts.currentPost}
    ELSE {}

\* EditPostPage is mounted on the route of id while state.posts holds
\* current as currentPost: the first effect dispatches fetchPost, the
\* second sends a user who is not the author of current to /posts and
\* else copies current into the form.
EditPostMounted(id, current) ==
    IF Falsy(current)
    THEN /\ Mount("edit-post", id, Blank("edit-post"))
         /\ posts' = postsPending(posts, "posts/fetchPost")
         /\ inFlight' = inFlight \cup
                {Request("posts/fetchPost", id, auth.token)}
    ELSE IF Owns(auth.user, current)
    THEN /\ Mount("edit-post", id, FormOf(current))
         /\ posts' = postsPending(posts, "posts/fetchPost")
         /\ inFlight' = inFlight \cup
                {Request("posts/fetchPost", id, auth.token)}
    ELSE /\ Mount("posts", Undefined, Blank("posts"))
         /\ posts' = postsPending(
                Leaving(postsPending(posts, "posts/fetchPost"), "edit-post"),
                "posts/fetchPosts")
         /\ inFlight' = inFlight \cup
                {Request("posts/fetchPost", id, auth.token),
                 Request("posts/fetchPosts", Undefined, auth.token)}

\* The Edit button of PostsPage or PostDetailPage:
\* navigate(`/edit-post/${post.id}`)
OpenEditPost ==
    /\ sent < MaxVisits
    /\ sent' = sent + 1
    /\ \E post \in Editable : EditPostMounted(Field(post, "id"), posts.currentPost)
    /\ settled' = NoCall
    /\ UNCHANGED <<auth, externalPosts, localToken, loggedOut, validatorVars>>

\* EditPostPage.handleInputChange, the form being on the page
EditPostChange ==
    /\ EditFormShown
    /\ EditHandleInputChange

\* EditPostPage.handleSubmit: validateForm, then
\* dispatch(updatePost(updateData)) with the id of the route
EditPostSubmit ==
    /\ EditFormShown
    /\ ~isSubmitting
    /\ sent < MaxVisits
    /\ \E errors \in {PostErrors(formData)} :
        /\ validationErrors' = errors
        /\ IF IsValidForm(errors) /\ ~Falsy(routeId)
           THEN \E data \in {UpdateData(formData, routeId)} :
                /\ isSubmitting' = TRUE
                /\ dispatched' = ThunkCall("posts/updatePost", data)
                /\ posts' = postsPending(posts, "posts/updatePost")
                /\ inFlight' = inFlight \cup
                       {Request("posts/updatePost", data, auth.token)}
                /\ sent' = sent + 1
           ELSE UNCHANGED <<isSubmitting, dispatched, posts, inFlight, sent>>
    /\ settled' = NoCall
    /\ UNCHANGED <<page, routeId, formData, typed, auth, externalPosts,
                   localToken, loggedOut, validatorVars>>

\* The post the API returns for an update it accepts.
Updated(data) ==
    Obj([id |-> Field(data, "id"), user_id |-> Field(User1, "id"),
         title |-> Field(data, "title"), content |-> Field(data, "content"),
         category_id |-> Field(data, "category_id")])

\* The replies to the requests of the post pages.
PageReplies(r) ==
    FailureReplies \cup
    (CASE r.thunk = "posts/fetchPosts" -> {SuccessData(Arr(AllPosts))}
       [] r.thunk = "posts/fetchPost" -> {Success(PostOfId(r.arg))}
       [] r.thunk = "posts/updatePost" -> {Success(Updated(r.arg))}
       [] OTHER -> {})

\* The reducer of the action a thunk ends with.
postsEnded(state, thunk, end) ==
    IF end.status = "fulfilled"
    THEN postsFulfilled(state, thunk, end.payload)
    ELSE postsRejected(state, thunk, end.payload)

\* The action gave state.posts a currentPost: EditPostPage's second effect
\* runs again.
CurrentPostSet(r, end) ==
    /\ end.status = "fulfilled"
    /\ \/ r.thunk = "posts/fetchPost"
       \/ /\ r.thunk = "posts/updatePost"
          /\ HasId(posts.currentPost, Field(end.payload, "id"))

\* finally { setIsSubmitting(false) } of the handleSubmit that awaits r
SubmitSettled(r) ==
    IF dispatched # NoCall /\ r.thunk = "posts/updatePost"
       /\ dispatched.arg = r.arg
    THEN isSubmitting' = FALSE /\ dispatched' = NoCall
    ELSE UNCHANGED <<isSubmitting, dispatched>>

\* The reply to r ends its thunk with end and leaves state.posts as after;
\* then the mounted page renders and its effects run.
Landed(r, end, after) ==
    IF page = "edit-post" /\ CurrentPostSet(r, end)
       /\ ~Falsy(after.currentPost)
    THEN IF Owns(auth.user, after.currentPost)
         THEN /\ formData' = FormOf(after.currentPost)
              /\ typed' = Untouched("edit-post")
              /\ SubmitSettled(r)
              /\ posts' = after
              /\ inFlight' = inFlight \ {r}
              /\ UNCHANGED <<page, routeId, validationErrors>>
         ELSE GoToPosts(after, inFlight \ {r})
    ELSE /\ SubmitSettled(r)
         /\ posts' = after
         /\ inFlight' = inFlight \ {r}
         /\ UNCHANGED <<page, routeId, formData, typed, validationErrors>>

\* A request of the post pages is answered.
PostReplied ==
    \E r \in inFlight : \E reply \in PageReplies(r) :
        \E end \in {PayloadCreator(r.thunk, r.arg, reply)} :
            /\ Landed(r, end, postsEnded(posts, r.thunk, end))
            /\ settled' = Settled(r, reply, end)
            /\ UNCHANGED <<auth, externalPosts, localToken, loggedOut, sent,
                           validatorVars>>

\* EditPostPage's timer, three seconds after successMessage is set:
\* dispatch(clearSuccessMessage())
SuccessMessageExpired ==
    /\ page = "edit-post"
    /\ ~Falsy(posts.successMessage)
    /\ posts' = postsClearSuccessMessage(posts)
    /\ settled' = NoCall
    /\ UNCHANGED <<auth, externalPosts, localToken, loggedOut, inFlight, sent,
                   validatorVars, pageVars>>

PostPagesNext ==
    \/ OpenPostsPage
    \/ OpenPostDetail
    \/ OpenEditPost
    \/ EditPostChange
    \/ EditPostSubmit
    \/ PostReplied
    \/ SuccessMessageExpired

PostPagesSpec == PostPagesInit /\ [][PostPagesNext]_vars

----------------------------------------------------------------------------
(* The properties.  last is the latest call with its arguments and what it *)
(* returned; the two lastIndex vectors are the state the calls share.      *)

\* The argument the latest call was made with.
Arg == last.args[1]

\* s matches at least one pattern of a table: a search from index 0.
MatchesAny(pats, s) == \E k \in 1..Len(pats) : MatchesOf(pats[k], s) # {}

Has(errors, msg) == \E i \in 1..Len(errors) : errors[i] = msg

\* The operations that return a ValidationResult.
ValidatorOps ==
    {"validateEmail", "validateUsername", "validateName", "validatePassword",
     "validatePostTitle", "validatePostContent", "validateUserRegistration",
     "validatePostCreation", "validateField"}

\* The six field validators, and the five of them that sanitize.
FieldOps ==
    {"validateEmail", "validateUsername", "validateName", "validatePassword",
     "validatePostTitle", "validatePostContent"}
SanitizedOps == FieldOps \ {"validatePassword"}

\* The label a call's messages start with.
CallLabel ==
    CASE last.op = "validateEmail" -> "Email"
      [] last.op = "validateUsername" -> "Username"
      [] last.op = "validateName" -> LabelOf(last.args[2])
      [] last.op = "validatePassword" -> "Password"
      [] last.op = "validatePostTitle" -> "Title"
      [] last.op = "validatePostContent" -> "Content"

\* `${label}text` as the validators build it: validateName keeps the label
\* apart, the others write the whole literal.
CallMsg(text) ==
    IF last.op = "validateName" THEN Labelled(CallLabel, text)
    ELSE Msg(CallLabel \o text)

\* The latest call was a field validator's, with a non-empty text.
PastRequired == last.op \in FieldOps /\ IsString(Arg) /\ Arg.s # <<>>

\* C1: after any earlier calls, validatePostTitle of a text that matches a
\* SQL-injection pattern is invalid with 'Title contains invalid content',
\* and validatePostContent of such a text with 'Content contains invalid
\* content'.
SqlMatchingPostAlwaysRejected ==
    /\ (/\ last.op = "validatePostTitle"
        /\ IsString(Arg)
        /\ MatchesAny(SQL_INJECTION_PATTERNS, Arg.s))
       => /\ ~last.ret.isValid
          /\ Has(last.ret.errors, Msg("Title contains invalid content"))
    /\ (/\ last.op = "validatePostContent"
        /\ IsString(Arg)
        /\ MatchesAny(SQL_INJECTION_PATTERNS, Arg.s))
       => /\ ~last.ret.isValid
          /\ Has(last.ret.errors, Msg("Content contains invalid content"))

\* C2: after any earlier calls, hasXSSContent(s) is true exactly when s is
\* a text that matches an XSS pattern, and hasSQLInjectionContent(s)
\* exactly when s is a text that matches a SQL-injection pattern.
PredicatesDependOnArgumentOnly ==
    /\ last.op = "hasXSSContent"
       => last.ret = (IsString(Arg) /\ MatchesAny(XSS_PATTERNS, Arg.s))
    /\ last.op = "hasSQLInjectionContent"
       => last.ret = (IsString(Arg) /\ MatchesAny(SQL_INJECTION_PATTERNS, Arg.s))

\* C3: after every call the lastIndex of every pattern of the two tables
\* is what it was when the tables were defined.
PatternStateStaysAsDefined ==
    /\ xssLastIndex = Pristine(XSS_PATTERNS)
    /\ sqlLastIndex = Pristine(SQL_INJECTION_PATTERNS)

\* C4: for a title and a content that are texts, the errors of
\* validatePostCreation are the errors of validatePostTitle alone followed
\* by the errors of validatePostContent alone, and the result is valid
\* exactly when both of these are.
PostCreationIsTitleThenContent ==
    (/\ last.op = "validatePostCreation"
     /\ ~last.threw
     /\ IsString(Field(Arg, "title"))
     /\ IsString(Field(Arg, "content")))
    => \E t \in {validatePostTitle(Field(Arg, "title"),
                                  Pristine(SQL_INJECTION_PATTERNS)).result} :
       \E c \in {validatePostContent(Field(Arg, "content"),
                                    Pristine(SQL_INJECTION_PATTERNS)).result} :
           /\ last.ret.errors = t.errors \o c.errors
           /\ last.ret.isValid = (t.isValid /\ c.isValid)

\* C5: every result a validator returns, validateField's default branch
\* included, has isValid true exactly when its errors are empty.
ResultValidIffNoErrors ==
    (last.op \in ValidatorOps /\ ~last.threw)
    => (last.ret.isValid <=> last.ret.errors = <<>>)

\* validateField has answered for a type that is none of the six.
DefaultBranchTaken ==
    /\ last.op = "validateField"
    /\ last.args[2] = Str(<<"phone">>)
    /\ last.ret.isValid

\* C6, for texts: in the five sanitizing validators, a text the sanitizer
\* changes is invalid with the field's 'contains invalid characters'
\* message, so a valid text is what the sanitizer returns for it and has
\* no white space at either end.
TextNeverSilentlyCorrected ==
    (last.op \in SanitizedOps /\ IsString(Arg))
    => /\ sanitizeString(Arg) # Arg.s
          => /\ ~last.ret.isValid
             /\ Has(last.ret.errors, CallMsg(" contains invalid characters"))
       /\ last.ret.isValid
          => /\ sanitizeString(Arg) = Arg.s
             /\ Trim(Arg.s) = Arg.s

\* An email that is valid once trimmed is refused for the space before it.
PaddedEmailRefused ==
    /\ last.op = "validateEmail"
    /\ Arg = Str(TxSpaceEmail)
    /\ last.ret = [isValid |-> FALSE,
                   errors |-> <<Msg("Email contains invalid characters")>>]

\* C6 as stated, for every value: whenever sanitizeString(v) differs from
\* v, the result is invalid and holds the field's 'contains invalid
\* characters' message.  For a v that is no text, sanitizeString(v) is the
\* empty string, which differs from v.
ValueNeverSilentlyCorrected ==
    (/\ last.op \in SanitizedOps
     /\ (IsString(Arg) => sanitizeString(Arg) # Arg.s))
    => /\ ~last.ret.isValid
       /\ Has(last.ret.errors, CallMsg(" contains invalid characters"))

\* C7: no call of a validator, field-level or composite, ends in a thrown
\* exception, whatever the argument.
NoValidatorThrows == ~last.threw

\* The field's single 'is required' result.
RequiredResult == [isValid |-> FALSE, errors |-> <<CallMsg(" is required")>>]

\* What C8 says of the value a call returns.
RequiredAnswered ==
    /\ (last.op \in FieldOps /\ (~IsString(Arg) \/ Arg.s = <<>>))
       => last.ret = RequiredResult
    /\ (last.op \in {"hasXSSContent", "hasSQLInjectionContent"} /\ ~IsString(Arg))
       => last.ret = FALSE
    /\ (last.op = "sanitizeString" /\ ~IsString(Arg))
       => last.ret = <<>>

\* What C8 says of the rules not evaluated: such a call tests no pattern.
RequiredTestsNothing ==
    (/\ last'.op \in FieldOps \cup {"hasXSSContent", "hasSQLInjectionContent"}
     /\ (~IsString(last'.args[1]) \/ last'.args[1].s = <<>>))
    => UNCHANGED <<xssLastIndex, sqlLastIndex>>

\* C8: for every input that is no text, and for the empty text, each of
\* the six field validators returns exactly its 'is required' result and
\* evaluates no other rule; for every input that is no text the two
\* predicates return false and sanitizeString returns the empty text.
NonTextIsRequiredOnly == []RequiredAnswered /\ [][RequiredTestsNothing]_vars

\* The empty title is answered 'Title is required' while a pattern's
\* lastIndex is not at 0.
EmptyTitleAfterMatches ==
    /\ last.op = "validatePostTitle"
    /\ Arg = Str(<<>>)
    /\ last.ret = [isValid |-> FALSE, errors |-> <<Msg("Title is required")>>]
    /\ sqlLastIndex # Pristine(SQL_INJECTION_PATTERNS)

\* errors holds every message of expected, each exactly once, and no other.
SameMessages(errors, expected) ==
    /\ Len(errors) = Len(expected)
    /\ \A k \in 1..Len(expected) :
           Cardinality({i \in 1..Len(errors) : errors[i] = expected[k]}) = 1

\* The messages of the rules of the field table that the sanitized text s
\* of the latest call's argument violates.
ViolatedRules(s) ==
    CASE last.op = "validateEmail" -> EmailErrors(Arg, s)
      [] last.op = "validateUsername" -> UsernameErrors(Arg, s)
      [] last.op = "validateName" ->
             PushIf(s # Arg.s, CallMsg(" contains invalid characters"))
             \o PushIf(Len(s) < MIN_NAME, CallMsg(" is required"))
             \o PushIf(Len(s) > MAX_NAME,
                       CallMsg(" is too long (max 50 characters)"))
             \o PushIf(~NameRegexTest(s),
                       CallMsg(" can only contain letters, spaces, hyphens, and apostrophes"))
      [] last.op = "validatePassword" ->
             PushIf(Len(Arg.s) < MIN_PASSWORD,
                    Msg("Password must be at least 8 characters long"))
             \o PushIf(Len(Arg.s) > MAX_PASSWORD,
                       Msg("Password is too long (max 128 characters)"))
             \o PushIf(~HasLetter(Arg.s),
                       Msg("Password must contain at least one letter"))
             \o PushIf(~HasDigit(Arg.s),
                       Msg("Password must contain at least one number"))
      [] last.op = "validatePostTitle" ->
             PushIf(s # Arg.s, Msg("Title contains invalid characters"))
             \o PushIf(Len(s) < MIN_TITLE,
                       Msg("Title must be at least 5 characters long"))
             \o PushIf(Len(s) > MAX_TITLE,
                       Msg("Title is too long (max 200 characters)"))
             \o PushIf(MatchesAny(SQL_INJECTION_PATTERNS, s),
                       Msg("Title contains invalid content"))
      [] last.op = "validatePostContent" ->
             PushIf(s # Arg.s, Msg("Content contains invalid characters"))
             \o PushIf(Len(s) < MIN_CONTENT,
                       Msg("Content must be at least 10 characters long"))
             \o PushIf(Len(s) > MAX_CONTENT,
                       Msg("Content is too long (max 10,000 characters)"))
             \o PushIf(MatchesAny(SQL_INJECTION_PATTERNS, s),
                       Msg("Content contains invalid content"))

\* C9: once the required check has passed, the errors of a field
\* validator hold the message of every rule the input violates, each
\* exactly once.
EveryViolatedRuleReported ==
    PastRequired => SameMessages(last.ret.errors, ViolatedRules(sanitizeString(Arg)))

\* The place of a message in a list of distinct messages.
Place(msg, order) == CHOOSE i \in 1..Len(order) : order[i] = msg

\* errors holds messages of order only, in the order of order.
InOrder(errors, order) ==
    /\ \A i \in 1..Len(errors) : \E k \in 1..Len(order) : order[k] = errors[i]
    /\ \A i, j \in 1..Len(errors) :
           i < j => Place(errors[i], order) < Place(errors[j], order)

\* The messages of the latest call's validator in the order its pushes
\* stand in the code.
PushOrder ==
    CASE last.op = "validateEmail" ->
             <<Msg("Email contains invalid characters"),
               Msg("Please enter a valid email address"),
               Msg("Email is too long (max 100 characters)")>>
      [] last.op = "validateUsername" ->
             <<Msg("Username contains invalid characters"),
               Msg("Username must be at least 3 characters long"),
               Msg("Username is too long (max 50 characters)"),
               Msg("Username can only contain letters, numbers, and underscores")>>
      [] last.op = "validateName" ->
             <<CallMsg(" contains invalid characters"),
               CallMsg(" is required"),
               CallMsg(" is too long (max 50 characters)"),
               CallMsg(" can only contain letters, spaces, hyphens, and apostrophes")>>
      [] last.op = "validatePassword" ->
             <<Msg("Password must be at least 8 characters long"),
               Msg("Password is too long (max 128 characters)"),
               Msg("Password must contain at least one letter"),
               Msg("Password must contain at least one number")>>
      [] last.op = "validatePostTitle" ->
             <<Msg("Title contains invalid characters"),
               Msg("Title must be at least 5 characters long"),
               Msg("Title is too long (max 200 characters)"),
               Msg("Title contains invalid content")>>
      [] last.op = "validatePostContent" ->
             <<Msg("Content contains invalid characters"),
               Msg("Content must be at least 10 characters long"),
               Msg("Content is too long (max 10,000 characters)"),
               Msg("Content contains invalid content")>>

\* The same messages in the order C10 gives: the length messages first,
\* then the other rules; for the email the format before the sanitizer's
\* message, for a title or a content the sanitizer's message before
\* 'invalid content'.
TableOrder ==
    CASE last.op = "validateEmail" ->
             <<Msg("Email is too long (max 100 characters)"),
               Msg("Please enter a valid email address"),
               Msg("Email contains invalid characters")>>
      [] last.op = "validateUsername" ->
             <<Msg("Username must be at least 3 characters long"),
               Msg("Username is too long (max 50 characters)"),
               Msg("Username can only contain letters, numbers, and underscores"),
               Msg("Username contains invalid characters")>>
      [] last.op = "validateName" ->
             <<CallMsg(" is required"),
               CallMsg(" is too long (max 50 characters)"),
               CallMsg(" can only contain letters, spaces, hyphens, and apostrophes"),
               CallMsg(" contains invalid characters")>>
      [] last.op = "validatePassword" ->
             <<Msg("Password must be at least 8 characters long"),
               Msg("Password is too long (max 128 characters)"),
               Msg("Password must contain at least one letter"),
               Msg("Password must contain at least one number")>>
      [] last.op = "validatePostTitle" ->
             <<Msg("Title must be at least 5 characters long"),
               Msg("Title is too long (max 200 characters)"),
               Msg("Title contains invalid characters"),
               Msg("Title contains invalid content")>>
      [] last.op = "validatePostContent" ->
             <<Msg("Content must be at least 10 characters long"),
               Msg("Content is too long (max 10,000 characters)"),
               Msg("Content contains invalid characters"),
               Msg("Content contains invalid content")>>

FieldErrorsInOrder ==
    validateUsername(Field(Arg, "username")).errors
    \o validateEmail(Field(Arg, "email")).errors
    \o validateName(Field(Arg, "firstName"), Str("First name")).errors
    \o validateName(Field(Arg, "lastName"), Str("Last name")).errors
    \o validatePassword(Field(Arg, "password")).errors

\* C11: the errors of validateUserRegistration are the errors of the five
\* field validators for username, email, firstName (label 'First name'),
\* lastName (label 'Last name') and password, in that order and none
\* skipped, optionally followed by the mismatch message; the result is
\* valid only if that list is empty.
RegistrationIsConcatenation ==
    (last.op = "validateUserRegistration" /\ ~last.threw)
    => /\ \/ last.ret.errors = FieldErrorsInOrder
          \/ last.ret.errors = FieldErrorsInOrder \o <<Msg("Passwords do not match")>>
       /\ last.ret.isValid => last.ret.errors = <<>>

\* A registration whose five fields all fail, two of them twice, and whose
\* confirmation differs.
EveryFieldFails ==
    /\ last.op = "validateUserRegistration"
    /\ ~last.threw
    /\ Len(last.ret.errors) = 8
    /\ last.ret.errors[1] = Msg("Username can only contain letters, numbers, and underscores")
    /\ last.ret.errors[7] = Msg("Password must contain at least one number")

\* C12: 'Passwords do not match' is the last error of
\* validateUserRegistration exactly when confirmPassword is a supplied
\* text, the empty text included, that differs from password.
MismatchReportedWheneverSupplied ==
    (last.op = "validateUserRegistration" /\ ~last.threw)
    => ((/\ IsString(Field(Arg, "confirmPassword"))
         /\ Field(Arg, "confirmPassword") # Field(Arg, "password"))
        <=> (/\ last.ret.errors # <<>>
             /\ last.ret.errors[Len(last.ret.errors)] = Msg("Passwords do not match")))

\* What C13 takes for a valid password.
GoodPassword(v) ==
    /\ IsString(v)
    /\ Len(v.s) >= MIN_PASSWORD
    /\ Len(v.s) <= MAX_PASSWORD
    /\ \E k \in 1..Len(v.s) : v.s[k] \in Letters
    /\ \E k \in 1..Len(v.s) : v.s[k] \in Digits

\* C13: validatePassword(p) is valid exactly when p is a text of 8 to 128
\* characters with a letter and a digit, whatever sanitizeString would make
\* of it, and its errors stand in the order min-length, max-length,
\* letter, digit.
PasswordRule ==
    last.op = "validatePassword"
    => /\ last.ret.isValid <=> GoodPassword(Arg)
       /\ PastRequired => InOrder(last.ret.errors, PushOrder)

\* A password the sanitizer would change is accepted.
UnsanitizedPasswordAccepted ==
    /\ last.op = "validatePassword"
    /\ IsString(Arg)
    /\ Sanitized(Arg.s) # Arg.s
    /\ last.ret.isValid

\* The latest call was a post validator's, of a text the sanitizer leaves
\* alone and no SQL-injection pattern matches.
CleanPost(op) ==
    /\ last.op = op
    /\ IsString(Arg)
    /\ sanitizeString(Arg) = Arg.s
    /\ ~MatchesAny(SQL_INJECTION_PATTERNS, Arg.s)

\* C14: a title the sanitizer leaves alone and no SQL-injection pattern
\* matches is valid exactly when its length is 5 to 200, and a content
\* exactly when its length is 10 to 10000; a non-empty text outside the
\* bounds is answered with the matching length message.
PostLengthBoundsInclusive ==
    /\ CleanPost("validatePostTitle")
       => /\ last.ret.isValid
             <=> (MIN_TITLE <= Len(Arg.s) /\ Len(Arg.s) <= MAX_TITLE)
          /\ (Arg.s # <<>> /\ Len(Arg.s) < MIN_TITLE)
             => last.ret.errors = <<Msg("Title must be at least 5 characters long")>>
          /\ Len(Arg.s) > MAX_TITLE
             => last.ret.errors = <<Msg("Title is too long (max 200 characters)")>>
    /\ CleanPost("validatePostContent")
       => /\ last.ret.isValid
             <=> (MIN_CONTENT <= Len(Arg.s) /\ Len(Arg.s) <= MAX_CONTENT)
          /\ (Arg.s # <<>> /\ Len(Arg.s) < MIN_CONTENT)
             => last.ret.errors = <<Msg("Content must be at least 10 characters long")>>
          /\ Len(Arg.s) > MAX_CONTENT
             => last.ret.errors = <<Msg("Content is too long (max 10,000 characters)")>>

\* A title of exactly MAX_TITLE characters is accepted.
LongestTitleAccepted ==
    /\ last.op = "validatePostTitle"
    /\ IsString(Arg)
    /\ Len(Arg.s) = MAX_TITLE
    /\ last.ret.isValid

\* None of the sanitizer's removal patterns matches s.
NoRemovalMatch(s) ==
    \A k \in 1..Len(SANITIZE_PATTERNS) :
        AnchoredMatches(SANITIZE_PATTERNS[k], Fold(s)) = {}

\* r is s without its leading and trailing white space.
Stripped(s, r) ==
    /\ \E i \in 0..Len(s) : \E j \in i..Len(s) :
           /\ r = SubSeq(s, i + 1, j)
           /\ \A k \in 1..i : IsSpace(s[k])
           /\ \A k \in (j + 1)..Len(s) : IsSpace(s[k])
    /\ r # <<>> => ~IsSpace(r[1]) /\ ~IsSpace(r[Len(r)])

\* C15: for a text s that none of the sanitizer's removal patterns
\* matches, sanitizeString(s) is s without its leading and trailing white
\* space, and sanitizing it again changes nothing.
SanitizeIdempotentOnClean ==
    (last.op = "sanitizeString" /\ IsString(Arg) /\ NoRemovalMatch(Arg.s))
    => /\ Stripped(Arg.s, last.ret)
       /\ Sanitized(last.ret) = last.ret

\* A text with white space at both ends and inside has been sanitized.
PaddedTextSanitized ==
    /\ last.op = "sanitizeString"
    /\ Arg = Str(TxPadded)
    /\ last.ret = <<"a", " ", "b">>

\* s holds "<script", later ">", later "</script>", whatever lies between
\* them, line terminators included.
HasScriptBlock(s) ==
    \E p \in 0..Len(s) : \E e \in p..Len(s) :
        /\ MatchLit(s, p, LitScriptOpen)
        /\ RunEnd(s, p + Len(LitScriptOpen), IsNotGt) < e
        /\ MatchLit(s, e, LitScriptClose)

\* C16: sanitizeString removes every script block, in any letter case and
\* also when the block spans several lines: what it returns holds no
\* script block, and for 'a<script>x NEWLINE y</script>b' it returns 'ab'.
EveryScriptBlockRemoved ==
    (last.op = "sanitizeString" /\ IsString(Arg))
    => /\ ~HasScriptBlock(Fold(last.ret))
       /\ Arg = Str(TxScriptLines) => last.ret = <<"a", "b">>

----------------------------------------------------------------------------
(* The properties of the forms.                                            *)

\* The submitted registration as validateUserRegistration reads it: the
\* form's first_name and last_name under the names the validator uses.
AsUserData(data) ==
    Obj([username |-> Field(data, "username"), email |-> Field(data, "email"),
         firstName |-> Field(data, "first_name"),
         lastName |-> Field(data, "last_name"),
         password |-> Field(data, "password")])

\* The InputValidator validators accept what the call submits.
ValidatorsAccept(call) ==
    CASE call.thunk = "auth/register" ->
            validateUserRegistration(AsUserData(call.arg)).result.isValid
      [] call.thunk \in {"posts/createPost", "posts/updatePost"} ->
            validatePostCreation(call.arg, sqlLastIndex).result.isValid
      [] OTHER -> TRUE

\* C17: a submit handler dispatches registerUser, createPost or updatePost
\* only with data that validateUserRegistration, respectively
\* validatePostCreation, accepts.
SubmittedDataAccepted == Awaiting => ValidatorsAccept(dispatched)

\* C18: every form value a change event has set is sanitizeString of the
\* value the event carried.
FormHoldsSanitizedValues ==
    \A f \in DOMAIN formData \ {"category_id"} :
        typed[f] # NotTyped => formData[f] = sanitizeString(typed[f])

----------------------------------------------------------------------------
(* The properties of the store.                                            *)

\* C19: no request of createPost, updatePost, deletePost or getCurrentUser
\* is in flight with the header of a null token, 'Bearer null'.
NoRequestBearsNull ==
    \A r \in inFlight :
        r.thunk \in BearerThunks => r.authorization # Bearer(Null)

\* The reply reports a failure: the request or the parse failed, or the
\* response says success = false.
ReportsFailure(reply) ==
    reply.failed \/ Field(reply.body, "success") = Bool(FALSE)

\* The messages a thunk may end with after such a reply.
FailureMessages(thunk, reply) ==
    {Text("Network error"), Text(DefaultMessage[thunk])}
    \cup (IF reply.failed THEN {} ELSE {Field(reply.body, "additionalData")})

IsMessage(v) == v.t = "string" /\ v.s # <<>>

\* The thunk that has just completed ended rejected.
EndedRejected(s) == s # NoCall /\ s.status = "rejected"

\* After a reply that reports a failure the thunk has ended rejected, with
\* a non-empty message that is additionalData, its default message or
\* 'Network error'.
FailureEndsRejected ==
    (settled # NoCall /\ ReportsFailure(settled.reply)) =>
        /\ settled.status = "rejected"
        /\ IsMessage(settled.payload)
        /\ settled.payload \in FailureMessages(settled.thunk, settled.reply)

\* The slice a thunk belongs to takes the message as its error and clears
\* the loading flag the thunk set; the lists of posts and currentPost stay.
RejectedReduced ==
    EndedRejected(settled') =>
        /\ settled'.thunk \in {"auth/login", "auth/register", "auth/getCurrentUser"}
               => auth'.error = settled'.payload /\ ~auth'.isLoading
        /\ settled'.thunk \in {"posts/fetchPosts", "posts/fetchPost",
                               "posts/createPost", "posts/updatePost",
                               "posts/deletePost"}
               => posts'.error = settled'.payload /\ ~posts'.isLoading
        /\ settled'.thunk = "posts/fetchUserPosts"
               => posts'.error = settled'.payload /\ ~posts'.isLoadingUserPosts
        /\ settled'.thunk = "externalPosts/fetchPosts"
               => /\ externalPosts'.error = settled'.payload
                  /\ ~externalPosts'.isLoading
        /\ posts'.posts = posts.posts
        /\ posts'.userPosts = posts.userPosts
        /\ posts'.currentPost = posts.currentPost
        /\ externalPosts'.posts = externalPosts.posts

\* C20: a thunk whose reply reports a failure ends rejected with a
\* non-empty message (additionalData, its default message or 'Network
\* error'), never fulfilled; the rejected reducer stores that message as
\* the slice's error, clears the loading flag and leaves posts, userPosts
\* and currentPost as they were.
FailuresHandledByPattern == []FailureEndsRejected /\ [][RejectedReduced]_vars

\* deletePost of the post shown is refused with an empty additionalData:
\* the slice holds the default message and still shows the post.
DeleteRefusedWithoutDetail ==
    /\ EndedRejected(settled)
    /\ settled.thunk = "posts/deletePost"
    /\ settled.reply = Refusal(Str(<<>>))
    /\ posts.error = Text("Failed to delete post")
    /\ posts.currentPost = Post1

\* The thunk that ended in the step being taken.
Ending(thunk, status) ==
    /\ settled' # NoCall
    /\ settled'.thunk = thunk
    /\ settled'.status = status

\* C21: registerUser.fulfilled leaves isAuthenticated and token as they
\* were, and for a visitor who is not logged in the route '/' that
\* RegisterPage then navigates to shows the login page.
RegistrationKeepsSession ==
    [][Ending("auth/register", "fulfilled") =>
           /\ auth'.isAuthenticated = auth.isAuthenticated
           /\ auth'.token = auth.token
           /\ (~auth.isAuthenticated =>
                   ProtectedRoute(auth', "/") = "/login")]_vars

\* A visitor has registered: the user is kept, the session is not opened.
VisitorRegistered ==
    /\ settled # NoCall
    /\ settled.thunk = "auth/register"
    /\ settled.status = "fulfilled"
    /\ auth.user = User1
    /\ auth.token = Null
    /\ ~auth.isAuthenticated
    /\ ProtectedRoute(auth, "/") = "/login"

\* C22: in every state of the auth slice, under any interleaving of logout,
\* setCredentials and clearError with the pending, fulfilled and rejected
\* actions of the three auth thunks, isAuthenticated implies a token that
\* is not null.
AuthenticatedHoldsToken == auth.isAuthenticated => auth.token # Null

\* C23: once logout has been dispatched, and until loginUser is fulfilled
\* or setCredentials is dispatched, isAuthenticated is false and token is
\* null, whatever request that was in flight completes.
LogoutEffective ==
    loggedOut => ~auth.isAuthenticated /\ auth.token = Null

\* C24: whenever EditPostPage shows its form, currentPost is the post of
\* the route and the logged-in user is its author, so the form never holds
\* the values of another post under the route's id.
EditFormShowsRoutePost ==
    EditFormShown =>
        /\ HasId(posts.currentPost, routeId)
        /\ Owns(auth.user, posts.currentPost)

\* No fetchPost request is in flight.
FetchPostsAnswered == \A r \in inFlight : r.thunk # "posts/fetchPost"

\* C25: when a fetchPost is fulfilled, no other is in flight and none has
\* failed, currentPost is the post of the id requested last, the id of the
\* route of the page that is mounted; a late reply to an earlier request
\* does not replace it.
LatestFetchWins ==
    /\ page \in {"post-detail", "edit-post"}
    /\ settled # NoCall
    /\ settled.thunk = "posts/fetchPost"
    /\ settled.status = "fulfilled"
    /\ FetchPostsAnswered
    /\ posts.error = Null
    => HasId(posts.currentPost, routeId)

\* The thunks whose reducers write state.posts.isLoading.
LoadingThunks ==
    {"posts/fetchPosts", "posts/fetchPost", "posts/createPost",
     "posts/updatePost", "posts/deletePost"}

\* C26: state.posts.isLoading is true exactly in the states in which a
\* request of fetchPosts, fetchPost, createPost, updatePost or deletePost
\* is in flight, also when two of them overlap.
LoadingWhileInFlight ==
    posts.isLoading <=> \E r \in inFlight : r.thunk \in LoadingThunks

\* C27: once deletePost(id) is fulfilled, no post with that id is left in
\* posts, in currentPost or in userPosts.
DeletedPostGone ==
    /\ settled # NoCall
    /\ settled.thunk = "posts/deletePost"
    /\ settled.status = "fulfilled"
    => /\ \A post \in Range(posts.posts) : ~HasId(post, settled.payload)
       /\ ~HasId(posts.currentPost, settled.payload)
       /\ \A post \in Range(posts.userPosts) : ~HasId(post, settled.payload)

\* isValid of the post validator op for v, the patterns' lastIndex all 0.
AcceptedPristine(op, v) ==
    IF op = "validatePostTitle"
    THEN validatePostTitle(v, Pristine(SQL_INJECTION_PATTERNS)).result.isValid
    ELSE validatePostContent(v, Pristine(SQL_INJECTION_PATTERNS)).result.isValid

\* C28: a text that validatePostTitle or validatePostContent accepts, the
\* patterns being pristine, has no XSS indicator: hasXSSContent of it is
\* false.
AcceptedPostTextHasNoXss ==
    /\ last.op \in {"validatePostTitle", "validatePostContent"}
    /\ IsString(Arg)
    /\ AcceptedPristine(last.op, Arg)
    => ~hasXSSContent(Arg, Pristine(XSS_PATTERNS)).found

\* C29: the composite validators that useInputValidation() returns do as
\* the class's: called on an object, for which the class's return a
\* result, they do not throw for want of InputValidator as their receiver.
HookValidatorsReturn ==
    (last.op \in HookOps /\ ~ReadThrows(Arg)) => ~last.threw

\* C30: the password registerUser is dispatched with is the text the last
\* change event of the password field carried: the form's sanitizer
\* alters no password.
PasswordSentAsTyped ==
    /\ Awaiting
    /\ dispatched.thunk = "auth/register"
    /\ typed.password # NotTyped
    => Field(dispatched.arg, "password") = typed.password

====
